---- MODULE Spec2Model ----
(***************************************************************************)
(* Attendance system: ingestion of punch files, the raw punch store        *)
(* (attendance_logs), the derived daily cache (daily_attendance) and the   *)
(* reconciliation done when an upload is deleted.                          *)
(*                                                                         *)
(* Text is modelled as a sequence of one-character strings, so that the    *)
(* parsers (normalizeTime, normalizeDate, validateEmployeeId, the punch    *)
(* tokenizer) are computed character by character as the code does.        *)
(***************************************************************************)
EXTENDS Integers, Sequences, FiniteSets, TLC

(* ----------------------------- bounds ---------------------------------- *)
\* number of upload ids (crypto.randomUUID values) a run may consume
MaxUploads == 3
\* number of distinct seconds datetime('now','localtime') may take
MaxClock == 1

(* ----------------------------- text ------------------------------------ *)
\* the falsy result (null / undefined / "") of the parsers
Null == << >>

Digits == {"0", "1", "2", "3", "4", "5", "6", "7", "8", "9"}

Letters ==
  {"a","b","c","d","e","f","g","h","i","j","k","l","m",
   "n","o","p","q","r","s","t","u","v","w","x","y","z",
   "A","B","C","D","E","F","G","H","I","J","K","L","M",
   "N","O","P","Q","R","S","T","U","V","W","X","Y","Z"}

Whitespace == {" ", "\t", "\n", "\r"}

DigitVal(c) ==
  CASE c = "0" -> 0 [] c = "1" -> 1 [] c = "2" -> 2 [] c = "3" -> 3
    [] c = "4" -> 4 [] c = "5" -> 5 [] c = "6" -> 6 [] c = "7" -> 7
    [] c = "8" -> 8 [] c = "9" -> 9

DigitChar(n) ==
  CASE n = 0 -> "0" [] n = 1 -> "1" [] n = 2 -> "2" [] n = 3 -> "3"
    [] n = 4 -> "4" [] n = 5 -> "5" [] n = 6 -> "6" [] n = 7 -> "7"
    [] n = 8 -> "8" [] n = 9 -> "9"

\* byte value of the characters that occur in a stored time (digits and ':'),
\* the order SQLite's BINARY collation compares them in
CharCode(c) == IF c \in Digits THEN 48 + DigitVal(c) ELSE 58

AllDigits(s) == \A i \in 1..Len(s) : s[i] \in Digits

RECURSIVE Trim(_)
\* String.prototype.trim
Trim(s) ==
  IF s = << >> THEN s
  ELSE IF Head(s) \in Whitespace THEN Trim(Tail(s))
  ELSE IF s[Len(s)] \in Whitespace THEN Trim(SubSeq(s, 1, Len(s) - 1))
  ELSE s

\* str.replace(/<from>/g, to) for a one-character pattern
ReplaceChar(s, from, to) == [i \in 1..Len(s) |-> IF s[i] = from THEN to ELSE s[i]]

RECURSIVE SplitOn(_, _, _, _)
\* str.split(sep) for a separator pattern that matches a run of the
\* characters in seps (runs = TRUE, /[...]+/) or one such character
\* (runs = FALSE): cur is the token being read, the result keeps the empty
\* tokens JavaScript keeps.
SplitOn(s, seps, runs, cur) ==
  IF s = << >> THEN << cur >>
  ELSE IF Head(s) \in seps
       THEN IF runs /\ Len(s) > 1 /\ s[2] \in seps
            THEN SplitOn(Tail(s), seps, runs, cur)
            ELSE << cur >> \o SplitOn(Tail(s), seps, runs, << >>)
       ELSE SplitOn(Tail(s), seps, runs, Append(cur, Head(s)))

\* Number.prototype.toString().padStart(2, "0") for 0..99
Pad2(n) == << DigitChar(n \div 10), DigitChar(n % 10) >>

\* String.prototype.padStart(2, "0")
PadStart2(s) == IF Len(s) >= 2 THEN s ELSE IF Len(s) = 1 THEN << "0" >> \o s ELSE << "0", "0" >>

RECURSIVE NumVal(_)
\* Number(s) for a string of decimal digits
NumVal(s) == IF s = << >> THEN 0 ELSE 10 * NumVal(SubSeq(s, 1, Len(s) - 1)) + DigitVal(s[Len(s)])

\* isNaN(s) for a string: Number(s) is a number when s, trimmed, is empty
\* or a run of decimal digits (signs, exponents and hex forms are outside
\* the alphabet of the inputs enumerated here)
IsNaN(s) == ~ AllDigits(Trim(s))

RECURSIVE StrLess(_, _)
\* a < b in SQLite's BINARY collation (memcmp, a proper prefix sorts first)
StrLess(a, b) ==
  IF b = << >> THEN FALSE
  ELSE IF a = << >> THEN TRUE
  ELSE IF Head(a) = Head(b) THEN StrLess(Tail(a), Tail(b))
  ELSE CharCode(Head(a)) < CharCode(Head(b))

(* ----------------------- dateTimeUtils.js ------------------------------ *)
\* normalizeTime: "H:MM", "H.MM", "H:MM:SS" -> "HH:MM" or "HH:MM:SS"; Null otherwise
normalizeTime(timeStr) ==
  IF timeStr = Null THEN Null
  ELSE
    LET normalized == ReplaceChar(Trim(timeStr), ".", ":")
        parts == SplitOn(normalized, {":"}, FALSE, << >>)
        \* /^(\d{1,2}):(\d{2})(?::(\d{2}))?$/
        matches ==
          /\ Len(parts) \in {2, 3}
          /\ Len(parts[1]) \in {1, 2} /\ AllDigits(parts[1])
          /\ Len(parts[2]) = 2 /\ AllDigits(parts[2])
          /\ Len(parts) = 3 => (Len(parts[3]) = 2 /\ AllDigits(parts[3]))
    IN IF ~ matches THEN Null
       ELSE
         LET h == NumVal(parts[1])
             m == NumVal(parts[2])
             hasS == Len(parts) = 3
             s == IF hasS THEN NumVal(parts[3]) ELSE 0
         IN IF h < 0 \/ h > 23 \/ m < 0 \/ m > 59 THEN Null
            ELSE IF hasS /\ (s < 0 \/ s > 59) THEN Null
            ELSE IF ~ hasS THEN Pad2(h) \o << ":" >> \o Pad2(m)
            ELSE Pad2(h) \o << ":" >> \o Pad2(m) \o << ":" >> \o Pad2(s)

RECURSIVE JoinWith(_, _)
\* Array.prototype.join(sep)
JoinWith(parts, sep) ==
  IF parts = << >> THEN << >>
  ELSE IF Len(parts) = 1 THEN parts[1]
  ELSE parts[1] \o sep \o JoinWith(Tail(parts), sep)

MonthNames ==
  { <<"j","a","n">>, <<"f","e","b">>, <<"m","a","r">>, <<"a","p","r">>,
    <<"m","a","y">>, <<"j","u","n">>, <<"j","u","l">>, <<"a","u","g">>,
    <<"s","e","p">>, <<"o","c","t">>, <<"n","o","v">>, <<"d","e","c">> }

\* monthMap[lowerMonth]
monthMap(name) ==
  CASE name = <<"j","a","n">> -> <<"0","1">> [] name = <<"f","e","b">> -> <<"0","2">>
    [] name = <<"m","a","r">> -> <<"0","3">> [] name = <<"a","p","r">> -> <<"0","4">>
    [] name = <<"m","a","y">> -> <<"0","5">> [] name = <<"j","u","n">> -> <<"0","6">>
    [] name = <<"j","u","l">> -> <<"0","7">> [] name = <<"a","u","g">> -> <<"0","8">>
    [] name = <<"s","e","p">> -> <<"0","9">> [] name = <<"o","c","t">> -> <<"1","0">>
    [] name = <<"n","o","v">> -> <<"1","1">> [] name = <<"d","e","c">> -> <<"1","2">>

LowerChar(c) ==
  CASE c = "A" -> "a" [] c = "B" -> "b" [] c = "C" -> "c" [] c = "D" -> "d"
    [] c = "E" -> "e" [] c = "F" -> "f" [] c = "G" -> "g" [] c = "H" -> "h"
    [] c = "I" -> "i" [] c = "J" -> "j" [] c = "K" -> "k" [] c = "L" -> "l"
    [] c = "M" -> "m" [] c = "N" -> "n" [] c = "O" -> "o" [] c = "P" -> "p"
    [] c = "Q" -> "q" [] c = "R" -> "r" [] c = "S" -> "s" [] c = "T" -> "t"
    [] c = "U" -> "u" [] c = "V" -> "v" [] c = "W" -> "w" [] c = "X" -> "x"
    [] c = "Y" -> "y" [] c = "Z" -> "z" [] OTHER -> c

\* String.prototype.toLowerCase
ToLower(s) == [i \in 1..Len(s) |-> LowerChar(s[i])]

\* normalizeDate: "YYYY-MM-DD", "DD-MM-YYYY", "DD/MM/YYYY", "DD-MMM-YY(YY)" -> "YYYY-MM-DD"
normalizeDate(dateStr) ==
  IF dateStr = Null THEN Null
  ELSE
    LET normalized == ReplaceChar(dateStr, "/", "-")
        parts == SplitOn(normalized, {"-"}, FALSE, << >>)
    IN IF Len(parts) # 3 THEN Null
       ELSE IF Len(parts[1]) = 4 /\ ~ IsNaN(parts[2]) THEN normalized
       ELSE IF parts[1] = << >> \/ parts[2] = << >> \/ parts[3] = << >> THEN Null
       ELSE
         LET year == IF Len(parts[3]) = 2 THEN << "2", "0" >> \o parts[3] ELSE parts[3]
             lowerMonth == ToLower(parts[2])
             month == IF lowerMonth \in MonthNames THEN monthMap(lowerMonth)
                      ELSE PadStart2(parts[2])
             day == PadStart2(parts[1])
         IN IF IsNaN(year) \/ IsNaN(month) \/ IsNaN(day) THEN Null
            ELSE year \o << "-" >> \o month \o << "-" >> \o day

(* ------------------------- validator.js -------------------------------- *)
\* validateEmployeeId: [valid, value]; letters, digits and hyphens, at most 20 characters
validateEmployeeId(employeeId) ==
  IF employeeId = Null THEN [valid |-> FALSE, value |-> Null]
  ELSE
    LET trimmed == Trim(employeeId)
    IN IF Len(trimmed) = 0 THEN [valid |-> FALSE, value |-> Null]
       ELSE IF Len(trimmed) > 20 THEN [valid |-> FALSE, value |-> Null]
       ELSE IF ~ (\A i \in 1..Len(trimmed) : trimmed[i] \in Letters \cup Digits \cup {"-"})
            THEN [valid |-> FALSE, value |-> Null]
       ELSE [valid |-> TRUE, value |-> trimmed]

(* --------------------------- inputs ------------------------------------ *)
\* employee codes, dates and punch cells as they appear in uploaded files
E1 == << "E", "1" >>
E2 == << "E", "2" >>
BadId == << "E", "#", "1" >>

\* 2024-01-07 is a Sunday, 2024-01-08 a Monday
DateIso7 == << "2","0","2","4","-","0","1","-","0","7" >>
DateDmy7 == << "0","7","/","0","1","/","2","0","2","4" >>
DateIso8 == << "2","0","2","4","-","0","1","-","0","8" >>
BadDate == << "0","7","-","0","1" >>

Cell0900_1800 == << "0","9",":","0","0",","," ","1","8",":","0","0" >>
Cell900_090000 == << "9",".","0","0"," ","0","9",":","0","0",":","0","0" >>
Cell0900 == << "0","9",":","0","0" >>
Cell1000 == << "1","0",":","0","0" >>
CellJunk == << "x","x",";","2","5",":","0","0" >>

Row(userId, date, punchRecords) ==
  [userId |-> userId, date |-> date, punchRecords |-> punchRecords]

\* the files a user may upload: name |-> parsed rows (readCSV's result)
FileRows(name) ==
  CASE name = "a.csv" -> << Row(E1, DateIso7, Cell0900_1800) >>
    [] name = "b.csv" -> << Row(E1, DateDmy7, Cell900_090000), Row(BadId, DateIso7, Cell0900),
                            Row(E1, BadDate, Cell0900), Row(E1, DateIso8, CellJunk),
                            Row(E2, DateIso8, Cell1000), Row(E1, DateIso7, Cell0900) >>
    [] name = "empty.csv" -> << >>

FileNames == {"a.csv", "b.csv", "empty.csv"}

UploadIds == 1..MaxUploads

(* ----------------------------- state ----------------------------------- *)
VARIABLES
  employees,   \* employees table: set of ids
  logs,        \* attendance_logs: set of [employee_id, date, time, upload_id]
  uploads,     \* uploads table: id |-> [filename, records_inserted, records_skipped, records_empty]
  daily,       \* daily_attendance: <<employee_id, date>> |-> [punches, upload_ids, updated_at]
  idsIssued,   \* number of upload ids committed so far (randomUUID never repeats)
  now,         \* datetime('now','localtime'), in seconds
  pc,          \* position of ingestSingleFile: "idle" or "aggregating"
  cur,         \* locals of the running ingestSingleFile between its two transactions
               \* (and, as history, the store as it was when the batch began)
  lastResult,  \* what the last handler returned or threw
  insertedBy,  \* history: the punches an insertLog.run reported as inserted (changes > 0)
               \* for an upload that has not been deleted since
  aborted,     \* history: an ingestion threw after its insert transaction had committed
  lastOp,      \* history: the last finished operation, and what it followed
  uploadPc,        \* position of the upload-file handler
  uploadFile,      \* the file the running upload-file invocation was given
  progressEvents,  \* the upload:progress events of the invocation, in emission order
  uploadResult,    \* what the last upload-file or ingestSingleFile call returned or threw
  today,           \* the local calendar date new Date() gives the views, "YYYY-MM-DD"
  tzWest,          \* the local time zone is behind UTC (negative offset)
  answer,          \* what the last view (attendance, grid, daily or monthly report) returned
  tasks,           \* the IPC invocations made so far, in arrival order: [kind, arg, pc, locals]
  running,         \* the invocation that holds the event loop of the main process, 0 if none
  parsed           \* the last call of a parser: [fn, arg, result]

vars == << employees, logs, uploads, daily, idsIssued, now, pc, cur, lastResult,
           insertedBy, aborted, lastOp,
           uploadPc, uploadFile, progressEvents, uploadResult, today, tzWest, answer,
           tasks, running, parsed >>

\* the state of the store handlers and their history
dbVars == << employees, logs, uploads, daily, idsIssued, now, pc, cur, lastResult,
             insertedBy, aborted, lastOp >>

\* the state of the upload-file handler
ipcVars == << uploadPc, uploadFile, progressEvents, uploadResult >>

\* the environment of the views and their last response
viewVars == << today, tzWest, answer >>

\* the invocations in flight and the event loop
loopVars == << tasks, running >>

\* the last parser call
parseVars == << parsed >>

store == << employees, logs, uploads, daily >>

NoCur == [uploadId |-> 0, file |-> "", inserted |-> 0, skipped |-> 0, total |-> 0,
          emptyRecordsCount |-> 0, affectedDays |-> {}, filePunches |-> {},
          storeBefore |-> << >>]

Result(op, ok, error, uploadId, inserted, skipped, total, logsDeleted) ==
  [op |-> op, ok |-> ok, error |-> error, uploadId |-> uploadId, inserted |-> inserted,
   skipped |-> skipped, total |-> total, logsDeleted |-> logsDeleted]

NoResult == Result("none", TRUE, "", 0, 0, 0, 0, 0)

\* a finished operation: kind is "ingest", "delete", "failed" or "none";
\* before and after are daily_attendance around it, days the employee-days
\* it rebuilt, filePunches the punches its file holds, storedBefore the punches
\* stored before it, removed the number of attendance_logs rows it removed;
\* repeat says that an ingestion directly follows a completed ingestion of
\* the same file, undone describes the deletion an ingestion directly follows
\* when its file is the one the deleted upload came from
OpRecord(kind, file, upload, before, after, inserted, days, filePunches, storedBefore,
         removed, repeat, undone) ==
  [kind |-> kind, file |-> file, upload |-> upload, before |-> before, after |-> after,
   inserted |-> inserted, days |-> days, filePunches |-> filePunches,
   storedBefore |-> storedBefore, removed |-> removed, repeat |-> repeat,
   undone |-> undone]

NoUndone == [upload |-> 0, before |-> << >>, storedBefore |-> {}, days |-> {}]

FailedOp == OpRecord("failed", "", 0, << >>, << >>, 0, {}, {}, {}, 0, FALSE, NoUndone)

NoOp == OpRecord("none", "", 0, << >>, << >>, 0, {}, {}, {}, 0, FALSE, NoUndone)

\* a file handed to upload-file or ingestSingleFile: its extension, its size
\* in bytes, whether the path exists, whether its parser (csv-parse, XLSX.read)
\* accepts the content, the number of rows and of employee-days it holds
File(ext, size, exists, parses, rows, groups) ==
  [ext |-> ext, size |-> size, exists |-> exists, parses |-> parses, rows |-> rows,
   groups |-> groups]

NoFile == File("", 0, FALSE, FALSE, 0, 0)

UploadResult(op, ok, error, total) == [op |-> op, ok |-> ok, error |-> error, total |-> total]

NoUploadResult == UploadResult("none", TRUE, "", 0)

\* the response of a view: which view, its parameter (a month, a date or
\* nothing), the employees it has an entry for and, per employee-day or per
\* employee, the record it computed
Answer(view, param, listed, body) ==
  [view |-> view, param |-> param, listed |-> listed, body |-> body]

NoAnswer == Answer("none", << >>, {}, << >>)

\* a call of one of the parsers and what it returned
Call(fn, arg, result) == [fn |-> fn, arg |-> arg, result |-> result]

NoCall == Call("none", << >>, << >>)

\* does an ingestion of file f directly follow a completed ingestion of f
Repeats(op, f) == op.kind = "ingest" /\ op.file = f

\* the deletion an ingestion of file f directly follows, if it deleted an
\* upload made from f
Undoes(op, f) ==
  IF op.kind = "delete" /\ op.file = f
  THEN [upload |-> op.upload, before |-> op.before, storedBefore |-> op.storedBefore,
        days |-> op.days]
  ELSE NoUndone

Key(l) == << l.employee_id, l.date, l.time >>

Init ==
  /\ employees = {}
  /\ logs = {}
  /\ uploads = << >>
  /\ daily = << >>
  /\ idsIssued = 0
  /\ now = 0
  /\ pc = "idle"
  /\ cur = NoCur
  /\ lastResult = NoResult
  /\ insertedBy = {}
  /\ aborted = FALSE
  /\ lastOp = NoOp
  /\ uploadPc = "idle"
  /\ uploadFile = NoFile
  /\ progressEvents = << >>
  /\ uploadResult = NoUploadResult
  /\ today = DateIso8
  /\ tzWest = FALSE
  /\ answer = NoAnswer
  /\ tasks = << >>
  /\ running = 0
  /\ parsed = NoCall

(* ---------------------- store statements -------------------------------- *)
\* insertLog written as INSERT OR REPLACE: the stored row is replaced and the
\* punch is re-tagged with the later upload
insertLog_replace(lg, employee_id, date, time, upload_id) ==
  [logs |-> {l \in lg : Key(l) # << employee_id, date, time >>}
            \cup {[employee_id |-> employee_id, date |-> date,
                   time |-> time, upload_id |-> upload_id]},
   changes |-> 1]

\* INSERT OR IGNORE INTO attendance_logs ...: UNIQUE(employee_id, date, time)
\* keeps the stored row; changes is the number of rows written
insertLog(lg, employee_id, date, time, upload_id) ==
  IF \E l \in lg : Key(l) = << employee_id, date, time >>
  THEN [logs |-> lg, changes |-> 0]
  ELSE [logs |-> lg \cup {[employee_id |-> employee_id, date |-> date,
                           time |-> time, upload_id |-> upload_id]},
        changes |-> 1]

RECURSIVE SortByTime(_)
\* ORDER BY time ASC over a set of attendance_logs rows of one employee-day
SortByTime(rows) ==
  IF rows = {} THEN << >>
  ELSE LET first == CHOOSE l \in rows : \A o \in rows : ~ StrLess(o.time, l.time)
       IN << first >> \o SortByTime(rows \ {first})

\* SELECT time, upload_id FROM attendance_logs
\*   WHERE employee_id = ? AND date = ? ORDER BY time ASC
getLogsForDay(lg, employee_id, date) ==
  SortByTime({l \in lg : l.employee_id = employee_id /\ l.date = date})

RECURSIVE Unique(_)
\* [...new Set(seq)]: first occurrences, in order
Unique(seq) ==
  IF seq = << >> THEN << >>
  ELSE LET init == Unique(SubSeq(seq, 1, Len(seq) - 1))
           x == seq[Len(seq)]
       IN IF \E i \in 1..Len(init) : init[i] = x THEN init ELSE Append(init, x)

\* logs.map(l => l.time).join(", ")
punchesOf(dayLogs) == JoinWith([i \in 1..Len(dayLogs) |-> dayLogs[i].time], << ",", " " >>)

\* uploadIdsOf taking the upload of the day's first punch only
uploadIdsOf_firstOnly(dayLogs) == << dayLogs[1].upload_id >>

\* [...new Set(logs.map(l => l.upload_id).filter(Boolean))].join(","): the ids
\* are kept as a sequence, which is what split(",") makes of the joined string
uploadIdsOf(dayLogs) ==
  Unique(SelectSeq([i \in 1..Len(dayLogs) |-> dayLogs[i].upload_id], LAMBDA u : u # 0))

\* INSERT INTO daily_attendance ... ON CONFLICT(employee_id, date) DO UPDATE SET
\*   punches, upload_ids, updated_at
upsertDaily(dl, employee_id, date, punches, upload_ids, clock) ==
  LET k == << employee_id, date >>
      row == [punches |-> punches, upload_ids |-> upload_ids, updated_at |-> clock]
  IN [x \in DOMAIN dl \cup {k} |-> IF x = k THEN row ELSE dl[x]]

\* DELETE FROM daily_attendance WHERE employee_id = ? AND date = ?
deleteDaily(dl, employee_id, date) ==
  [x \in DOMAIN dl \ {<< employee_id, date >>} |-> dl[x]]

(* ---------------------- ingestSingleFile -------------------------------- *)
\* the split on /[,;\n|]+/, the pattern without whitespace
splitPunchRecords_noWhitespace(rawPunchRecords) ==
  SplitOn(rawPunchRecords, {",", ";", "\n", "|"}, TRUE, << >>)

\* rawPunchRecords.toString().split(/[,;\n|\s]+/)
splitPunchRecords(rawPunchRecords) ==
  SplitOn(rawPunchRecords, {",", ";", "\n", "|"} \cup Whitespace, TRUE, << >>)

RECURSIVE normalizeTokens(_)
\* the loop over splits: trim, drop empty tokens, keep what normalizeTime accepts
normalizeTokens(splits) ==
  IF splits = << >> THEN << >>
  ELSE LET trimmed == Trim(Head(splits))
           normTime == IF trimmed # << >> THEN normalizeTime(trimmed) ELSE Null
       IN (IF normTime # Null THEN << normTime >> ELSE << >>) \o normalizeTokens(Tail(splits))

\* timeEntries of one row
timeEntriesOf(rawPunchRecords) ==
  IF rawPunchRecords = Null THEN << >>
  ELSE normalizeTokens(splitPunchRecords(rawPunchRecords))

RECURSIVE insertEntries(_, _, _, _, _)
\* the loop over timeEntries: run insertLog for each, count the rows written
insertEntries(timeEntries, lg, employee_id, date, upload_id) ==
  IF timeEntries = << >> THEN [logs |-> lg, insertedForRecord |-> 0, written |-> {}]
  ELSE LET info == insertLog(lg, employee_id, date, Head(timeEntries), upload_id)
           rest == insertEntries(Tail(timeEntries), info.logs, employee_id, date, upload_id)
       IN [logs |-> rest.logs,
           insertedForRecord |-> rest.insertedForRecord + (IF info.changes > 0 THEN 1 ELSE 0),
           written |-> rest.written \cup
              (IF info.changes > 0
               THEN {[employee_id |-> employee_id, date |-> date,
                      time |-> Head(timeEntries), upload_id |-> upload_id]}
               ELSE {})]

\* processRow without its emptyRecordsCount branch: a row none of whose
\* tokens is a time is counted as skipped
processRow_emptyIsSkipped(st, r, upload_id) ==
  LET employeeIdValidation == validateEmployeeId(r.userId)
      validatedEmployeeId == employeeIdValidation.value
      normalizedDate == normalizeDate(r.date)
      timeEntries == timeEntriesOf(r.punchRecords)
      ins == insertEntries(timeEntries, st.logs, validatedEmployeeId, normalizedDate, upload_id)
  IN IF ~ employeeIdValidation.valid THEN [st EXCEPT !.skipped = @ + 1]
     ELSE IF normalizedDate = Null THEN [st EXCEPT !.skipped = @ + 1]
     ELSE IF Len(timeEntries) > 0
          THEN [st EXCEPT
                  !.employees = @ \cup {validatedEmployeeId},
                  !.logs = ins.logs,
                  !.inserted = @ + (IF ins.insertedForRecord > 0 THEN 1 ELSE 0),
                  !.skipped = @ + (IF ins.insertedForRecord > 0 THEN 0 ELSE 1),
                  !.affectedDays = @ \cup {<< validatedEmployeeId, normalizedDate >>},
                  !.written = @ \cup ins.written,
                  !.filePunches = @ \cup
                     {<< validatedEmployeeId, normalizedDate, timeEntries[i] >> :
                        i \in 1..Len(timeEntries)}]
          ELSE [st EXCEPT
                  !.employees = @ \cup {validatedEmployeeId},
                  !.skipped = @ + 1]

\* one iteration of the row loop, on the transaction's working state st
processRow(st, r, upload_id) ==
  LET employeeIdValidation == validateEmployeeId(r.userId)
      validatedEmployeeId == employeeIdValidation.value
      normalizedDate == normalizeDate(r.date)
      timeEntries == timeEntriesOf(r.punchRecords)
      ins == insertEntries(timeEntries, st.logs, validatedEmployeeId, normalizedDate, upload_id)
  IN IF ~ employeeIdValidation.valid THEN [st EXCEPT !.skipped = @ + 1]
     ELSE IF normalizedDate = Null THEN [st EXCEPT !.skipped = @ + 1]
     ELSE IF Len(timeEntries) > 0
          THEN [st EXCEPT
                  !.employees = @ \cup {validatedEmployeeId},
                  !.logs = ins.logs,
                  !.inserted = @ + (IF ins.insertedForRecord > 0 THEN 1 ELSE 0),
                  !.skipped = @ + (IF ins.insertedForRecord > 0 THEN 0 ELSE 1),
                  !.affectedDays = @ \cup {<< validatedEmployeeId, normalizedDate >>},
                  !.written = @ \cup ins.written,
                  !.filePunches = @ \cup
                     {<< validatedEmployeeId, normalizedDate, timeEntries[i] >> :
                        i \in 1..Len(timeEntries)}]
          ELSE [st EXCEPT
                  !.employees = @ \cup {validatedEmployeeId},
                  !.emptyRecordsCount = @ + 1]

RECURSIVE processRows_stopAtBadRow(_, _, _)
\* the row loop leaving the batch at the first row it cannot use (break in
\* place of continue)
processRows_stopAtBadRow(st, rows, upload_id) ==
  IF rows = << >> THEN st
  ELSE IF ~ validateEmployeeId(Head(rows).userId).valid \/ normalizeDate(Head(rows).date) = Null
       THEN [st EXCEPT !.skipped = @ + 1]
       ELSE processRows_stopAtBadRow(processRow(st, Head(rows), upload_id), Tail(rows), upload_id)

RECURSIVE processRows(_, _, _)
\* the row loop of the insert transaction
processRows(st, rows, upload_id) ==
  IF rows = << >> THEN st
  ELSE processRows(processRow(st, Head(rows), upload_id), Tail(rows), upload_id)

\* the working state an insert transaction starts from
TxStart(emps, lg) ==
  [employees |-> emps, logs |-> lg, inserted |-> 0, skipped |-> 0,
   emptyRecordsCount |-> 0, affectedDays |-> {}, written |-> {}, filePunches |-> {}]

\* the insert transaction: insertUpload.run, then the row loop
insertTransaction(rows, upload_id) ==
  processRows([employees |-> employees, logs |-> logs, inserted |-> 0, skipped |-> 0,
               emptyRecordsCount |-> 0, affectedDays |-> {}, written |-> {},
               filePunches |-> {}],
              rows, upload_id)

\* one iteration of the aggregation loop: rebuild the row of one affected day
aggregateDay(dl, lg, group, upload_id, clock) ==
  LET dayLogs == getLogsForDay(lg, group[1], group[2])
  IN IF Len(dayLogs) > 0
     THEN upsertDaily(dl, group[1], group[2], punchesOf(dayLogs), uploadIdsOf(dayLogs), clock)
     ELSE dl

RECURSIVE aggregateDays(_, _, _, _, _)
\* the aggregation loop over Array.from(affectedDays)
aggregateDays(dl, lg, groups, upload_id, clock) ==
  IF groups = {} THEN dl
  ELSE LET g == CHOOSE x \in groups : TRUE
       IN aggregateDays(aggregateDay(dl, lg, g, upload_id, clock), lg, groups \ {g},
                        upload_id, clock)

\* updateUpload setting the two counters the row was created with, and not
\* records_empty
updateUpload_withoutEmpty(ups, inserted, skipped, empty, id) ==
  [x \in DOMAIN ups |->
     IF x = id THEN [ups[x] EXCEPT !.records_inserted = inserted,
                                   !.records_skipped = skipped]
     ELSE ups[x]]

\* UPDATE uploads SET records_inserted = ?, records_skipped = ?, records_empty = ? WHERE id = ?
updateUpload(ups, inserted, skipped, empty, id) ==
  [x \in DOMAIN ups |->
     IF x = id THEN [ups[x] EXCEPT !.records_inserted = inserted,
                                   !.records_skipped = skipped,
                                   !.records_empty = empty]
     ELSE ups[x]]

\* INSERT INTO uploads (id, filename, records_inserted, records_skipped) VALUES (?, ?, 0, 0)
insertUpload(ups, id, filename) ==
  [x \in DOMAIN ups \cup {id} |->
     IF x = id THEN [filename |-> filename, records_inserted |-> 0,
                     records_skipped |-> 0, records_empty |-> 0]
     ELSE ups[x]]

\* ingestSingleFile on a file without rows: "No records found", nothing is
\* written (the uuid generated for it is never stored)
IngestEmpty(f) ==
  /\ pc = "idle"
  /\ FileRows(f) = << >>
  /\ lastResult' = Result("ingest", TRUE, "", 0, 0, 0, 0, 0)
  /\ lastOp' = OpRecord("ingest", f, 0, daily, daily, 0, {}, {}, {}, 0,
                        Repeats(lastOp, f), Undoes(lastOp, f))
  /\ UNCHANGED << employees, logs, uploads, daily, idsIssued, now, pc, cur,
                  insertedBy, aborted >>
  /\ UNCHANGED ipcVars
  /\ UNCHANGED viewVars
  /\ UNCHANGED loopVars
  /\ UNCHANGED parseVars

\* ingestSingleFile, first transaction: the upload row, the employees and the
\* raw punches of every row are written and committed
IngestInsertCommit(f) ==
  /\ pc = "idle"
  /\ FileRows(f) # << >>
  /\ idsIssued < MaxUploads
  /\ LET uploadId == idsIssued + 1
         st == insertTransaction(FileRows(f), uploadId)
     IN /\ employees' = st.employees
        /\ logs' = st.logs
        /\ uploads' = insertUpload(uploads, uploadId, f)
        /\ insertedBy' = insertedBy \cup st.written
        /\ idsIssued' = uploadId
        /\ cur' = [uploadId |-> uploadId, file |-> f, inserted |-> st.inserted,
                   skipped |-> st.skipped, total |-> Len(FileRows(f)),
                   emptyRecordsCount |-> st.emptyRecordsCount,
                   affectedDays |-> st.affectedDays, filePunches |-> st.filePunches,
                   storeBefore |-> store]
  /\ pc' = "aggregating"
  /\ UNCHANGED << daily, now, lastResult, aborted, lastOp >>
  /\ UNCHANGED ipcVars
  /\ UNCHANGED viewVars
  /\ UNCHANGED loopVars
  /\ UNCHANGED parseVars

\* ingestSingleFile, first transaction throws (storage failure): better-sqlite3
\* rolls the transaction back and the error reaches the caller
IngestInsertThrow(f) ==
  /\ pc = "idle"
  /\ FileRows(f) # << >>
  /\ lastResult' = Result("ingest", FALSE, "storage failure", 0, 0, 0, 0, 0)
  /\ lastOp' = FailedOp
  /\ UNCHANGED << employees, logs, uploads, daily, idsIssued, now, pc, cur,
                  insertedBy, aborted >>
  /\ UNCHANGED ipcVars
  /\ UNCHANGED viewVars
  /\ UNCHANGED loopVars
  /\ UNCHANGED parseVars

\* ingestSingleFile, second transaction: the rows of the affected days are
\* rebuilt from attendance_logs and the upload's counters are stored
IngestAggregateCommit ==
  /\ pc = "aggregating"
  /\ daily' = aggregateDays(daily, logs, cur.affectedDays, cur.uploadId, now)
  /\ uploads' = updateUpload(uploads, cur.inserted, cur.skipped, cur.emptyRecordsCount,
                             cur.uploadId)
  /\ lastResult' = Result("ingest", TRUE, "", cur.uploadId, cur.inserted, cur.skipped,
                          cur.total, 0)
  /\ lastOp' = OpRecord("ingest", cur.file, cur.uploadId, cur.storeBefore[4], daily', cur.inserted,
                        cur.affectedDays, cur.filePunches, {}, 0,
                        Repeats(lastOp, cur.file), Undoes(lastOp, cur.file))
  /\ pc' = "idle"
  /\ cur' = NoCur
  /\ UNCHANGED << employees, logs, idsIssued, now, insertedBy, aborted >>
  /\ UNCHANGED ipcVars
  /\ UNCHANGED viewVars
  /\ UNCHANGED loopVars
  /\ UNCHANGED parseVars

\* ingestSingleFile, second transaction throws (storage failure): only the
\* second transaction is rolled back, the first one stays committed
IngestAggregateThrow ==
  /\ pc = "aggregating"
  /\ lastResult' = Result("ingest", FALSE, "storage failure", 0, 0, 0, 0, 0)
  /\ lastOp' = FailedOp
  /\ aborted' = TRUE
  /\ pc' = "idle"
  /\ cur' = NoCur
  /\ UNCHANGED << employees, logs, uploads, daily, idsIssued, now, insertedBy >>
  /\ UNCHANGED ipcVars
  /\ UNCHANGED viewVars
  /\ UNCHANGED loopVars
  /\ UNCHANGED parseVars

(* ---------------------- api:delete-upload ------------------------------- *)
\* getAffectedDays run after the logs are gone: no day is found
getAffectedDays_afterDelete(lg, uploadId) == {}

\* SELECT DISTINCT employee_id, date FROM attendance_logs WHERE upload_id = ?
getAffectedDays(lg, uploadId) ==
  {<< l.employee_id, l.date >> : l \in {x \in lg : x.upload_id = uploadId}}

\* DELETE FROM uploads WHERE id = ?
deleteUpload(ups, uploadId) ==
  [uploads |-> [x \in DOMAIN ups \ {uploadId} |-> ups[x]],
   changes |-> IF uploadId \in DOMAIN ups THEN 1 ELSE 0]

\* upload_id TEXT REFERENCES uploads(id) ON DELETE CASCADE, foreign_keys = ON:
\* deleting the uploads row deletes its attendance_logs rows
cascadeLogs(lg, uploadId) == {l \in lg : l.upload_id # uploadId}

\* DELETE FROM attendance_logs WHERE upload_id = ?
deleteLogs(lg, uploadId) ==
  [logs |-> {l \in lg : l.upload_id # uploadId},
   changes |-> Cardinality({l \in lg : l.upload_id = uploadId})]

\* reaggregateDay without its deleteDaily branch: a day left without punches
\* keeps its row
reaggregateDay_keepsRow(dl, lg, row, clock) ==
  LET dayLogs == getLogsForDay(lg, row[1], row[2])
  IN IF Len(dayLogs) > 0
     THEN upsertDaily(dl, row[1], row[2], punchesOf(dayLogs), uploadIdsOf(dayLogs), clock)
     ELSE dl

\* step D for one affected day: rebuild the row from the remaining logs, or
\* delete it when none remain
reaggregateDay(dl, lg, row, clock) ==
  LET dayLogs == getLogsForDay(lg, row[1], row[2])
  IN IF Len(dayLogs) > 0
     THEN upsertDaily(dl, row[1], row[2], punchesOf(dayLogs), uploadIdsOf(dayLogs), clock)
     ELSE deleteDaily(dl, row[1], row[2])

RECURSIVE reaggregateDays(_, _, _, _)
\* step D: the loop over affectedRows
reaggregateDays(dl, lg, affectedRows, clock) ==
  IF affectedRows = {} THEN dl
  ELSE LET row == CHOOSE x \in affectedRows : TRUE
       IN reaggregateDays(reaggregateDay(dl, lg, row, clock), lg, affectedRows \ {row}, clock)

\* the legacy fallback: rows whose upload_ids LIKE %uploadId% get the id
\* filtered out (ids are uuids, so the pattern matches a row exactly when
\* the id is one of its upload_ids); updated_at is not touched
legacyFallback(dl, uploadId) ==
  LET affectedLegacy == {k \in DOMAIN dl :
                           \E i \in 1..Len(dl[k].upload_ids) : dl[k].upload_ids[i] = uploadId}
  IN [daily |-> [k \in DOMAIN dl |->
                   IF k \in affectedLegacy
                   THEN [dl[k] EXCEPT !.upload_ids = SelectSeq(@, LAMBDA id : id # uploadId)]
                   ELSE dl[k]],
      legacyUpdatedCount |-> Cardinality(affectedLegacy)]

\* the existence check left out: a missing upload is deleted "successfully"
uploadNotFound_never(res) == FALSE

\* res.changes === 0 inside the transaction: throw new Error("Upload not found")
uploadNotFound(res) == res.changes = 0

\* the transaction of api:delete-upload, steps A to D and the legacy fallback
deleteTransaction(uploadId) ==
  LET affectedRows == getAffectedDays(logs, uploadId)
      res == deleteUpload(uploads, uploadId)
      logRes == deleteLogs(cascadeLogs(logs, uploadId), uploadId)
      logsDeletedCount == logRes.changes
      rebuilt == reaggregateDays(daily, logRes.logs, affectedRows, now)
      legacy == IF logsDeletedCount = 0 THEN legacyFallback(rebuilt, uploadId)
                ELSE [daily |-> rebuilt, legacyUpdatedCount |-> 0]
  IN [throws |-> uploadNotFound(res), uploads |-> res.uploads, logs |-> logRes.logs,
      daily |-> legacy.daily, logsDeleted |-> logsDeletedCount + legacy.legacyUpdatedCount]

\* api:delete-upload with a missing id: "Invalid upload ID" is thrown before
\* any statement runs
DeleteInvalid ==
  /\ pc = "idle"
  /\ lastResult' = Result("delete", FALSE, "Invalid upload ID", 0, 0, 0, 0, 0)
  /\ lastOp' = FailedOp
  /\ UNCHANGED << employees, logs, uploads, daily, idsIssued, now, pc, cur,
                  insertedBy, aborted >>
  /\ UNCHANGED ipcVars
  /\ UNCHANGED viewVars
  /\ UNCHANGED loopVars
  /\ UNCHANGED parseVars

\* api:delete-upload: the transaction commits, or throws and is rolled back
DeleteUpload(uploadId) ==
  /\ pc = "idle"
  /\ LET tx == deleteTransaction(uploadId)
     IN IF tx.throws
        THEN /\ lastResult' = Result("delete", FALSE, "Upload not found", uploadId, 0, 0, 0, 0)
             /\ lastOp' = FailedOp
             /\ UNCHANGED << uploads, logs, daily >>
        ELSE /\ uploads' = tx.uploads
             /\ logs' = tx.logs
             /\ daily' = tx.daily
             /\ lastResult' = Result("delete", TRUE, "", uploadId, 0, 0, 0, tx.logsDeleted)
             /\ lastOp' = OpRecord("delete",
                                   IF uploadId \in DOMAIN uploads
                                   THEN uploads[uploadId].filename ELSE "",
                                   uploadId, daily,
                                   tx.daily, 0, getAffectedDays(logs, uploadId), {},
                                   {Key(l) : l \in logs},
                                   Cardinality(logs) - Cardinality(tx.logs), FALSE, NoUndone)
  /\ insertedBy' = {x \in insertedBy : x.upload_id \in DOMAIN uploads'}
  /\ UNCHANGED << employees, idsIssued, now, pc, cur, aborted >>
  /\ UNCHANGED ipcVars
  /\ UNCHANGED viewVars
  /\ UNCHANGED loopVars
  /\ UNCHANGED parseVars

\* the wall clock moves on to the next second
Tick ==
  /\ now < MaxClock
  /\ now' = now + 1
  /\ UNCHANGED << employees, logs, uploads, daily, idsIssued, pc, cur, lastResult,
                  insertedBy, aborted, lastOp >>
  /\ UNCHANGED ipcVars
  /\ UNCHANGED viewVars
  /\ UNCHANGED loopVars
  /\ UNCHANGED parseVars

Next ==
  \/ \E f \in FileNames : IngestEmpty(f)
  \/ \E f \in FileNames : IngestInsertCommit(f)
  \/ \E f \in FileNames : IngestInsertThrow(f)
  \/ IngestAggregateCommit
  \/ IngestAggregateThrow
  \/ DeleteInvalid
  \/ \E u \in UploadIds : DeleteUpload(u)
  \/ Tick

Spec == Init /\ [][Next]_vars

(* ------------------------- upload-file ---------------------------------- *)
\* validateFileSize: maxMB * 1024 * 1024
maxBytes(maxMB) == maxMB * 1024 * 1024

\* validateFileSize(sizeBytes, maxMB)
validateFileSize(sizeBytes, maxMB) ==
  IF sizeBytes < 0 THEN [valid |-> FALSE, error |-> "Invalid file size"]
  ELSE IF sizeBytes = 0 THEN [valid |-> FALSE, error |-> "File is empty"]
  ELSE IF sizeBytes > maxBytes(maxMB) THEN [valid |-> FALSE, error |-> "File size exceeds limit"]
  ELSE [valid |-> TRUE, error |-> ""]

allowedExtensions == {".dat", ".csv", ".xls", ".xlsx"}

\* validateFileExtension, on the extension of the file name
validateFileExtension(ext) ==
  IF ext \notin allowedExtensions THEN [valid |-> FALSE, error |-> "Invalid file type"]
  ELSE [valid |-> TRUE, error |-> ""]

\* readCSV: a missing path gives no rows, a file over 10MB or one csv-parse
\* rejects throws, otherwise the parsed rows
readCSV(file) ==
  IF ~ file.exists THEN [throws |-> FALSE, error |-> "", rows |-> 0]
  ELSE IF file.size > 10 * 1024 * 1024
       THEN [throws |-> TRUE, error |-> "File size exceeds 10MB limit", rows |-> 0]
  ELSE IF ~ file.parses THEN [throws |-> TRUE, error |-> "parse error", rows |-> 0]
  ELSE [throws |-> FALSE, error |-> "", rows |-> file.rows]

\* Math.round(num / den) for num >= 0, den > 0 (halves round up); the
\* quotient is taken exactly, and since floating-point division, product
\* and sum are monotonic the order of two rounded values is the same
MathRound(num, den) == (2 * num + den) \div (2 * den)

\* row progress of ingestSingleFile: 10 + Math.round(((i + 1) / rows.length) * 40)
rowProgress(done, total) == 10 + MathRound(done * 40, total)

\* Math.max(1, Math.floor(groups.length / 20))
batchSize(groups) == IF groups \div 20 > 1 THEN groups \div 20 ELSE 1

\* aggregation progress: 50 + Math.round(((i + 1) / groups.length) * 40)
aggregateProgress(done, groups) == 50 + MathRound(done * 40, groups)

\* sendUploadProgress({ phase, progress, ... })
Event(phase, progress) == [phase |-> phase, progress |-> progress]

\* the progress callback reporting the phase ingestSingleFile is in ("parsing"
\* while it reads)
onProgress_parsing(progress) ==
  Event(IF progress < 10 THEN "parsing" ELSE "inserting",
        MathRound(70 * 100 + progress * (95 - 70), 100))

\* the progress callback upload-file gives ingestSingleFile:
\* Math.round(baseProgress + (progress / 100) * range), phase "inserting"
onProgress(progress) == Event("inserting", MathRound(70 * 100 + progress * (95 - 70), 100))

\* the events of the row loop: one every 500 rows
rowEvents(total) == [k \in 1..(total \div 500) |-> onProgress(rowProgress(500 * k, total))]

\* the events of the aggregation loop: one every batchSize groups
aggregateEvents(groups) ==
  [k \in 1..(groups \div batchSize(groups)) |->
     onProgress(aggregateProgress(batchSize(groups) * k, groups))]

\* the file upload-file leaves at targetPath: the buffer itself for a .csv
\* name, the output of XLSX.utils.sheet_to_csv otherwise
savedFile(file) ==
  [file EXCEPT !.exists = TRUE, !.parses = IF file.ext = ".csv" THEN @ ELSE TRUE]

\* the extensions, sizes, row and employee-day counts of the files offered
Exts == {".csv", ".xlsx", ".txt"}

Sizes == {0, 2048, 10 * 1024 * 1024 + 1}

RowCounts == {0, 1, 500, 1200}

GroupCounts == {0, 1, 45}

\* the buffers given to upload-file (a buffer is no path: exists plays no
\* part); a buffer of no bytes holds no row
Buffers ==
  {file \in {File(e, sz, TRUE, ps, r, g) :
               e \in Exts, sz \in Sizes, ps \in BOOLEAN,
               r \in RowCounts, g \in GroupCounts} :
     file.groups <= file.rows /\ (file.size = 0 => file.rows = 0)}

\* the paths given to ingestSingleFile directly
Paths ==
  {file \in {File(".csv", sz, ex, ps, r, 0) :
               sz \in Sizes, ex \in BOOLEAN, ps \in BOOLEAN, r \in RowCounts} :
     file.size = 0 => file.rows = 0}

\* the catch block of upload-file: the error event, { ok: false, error }
UploadCatch(events, error) ==
  /\ progressEvents' = Append(events, Event("error", 0))
  /\ uploadResult' = UploadResult("upload-file", FALSE, error, 0)
  /\ uploadPc' = "done"

\* upload-file is invoked: the initial progress event
UploadBegin(file) ==
  /\ uploadPc \in {"idle", "done"}
  /\ uploadFile' = file
  /\ progressEvents' = << Event("reading", 0) >>
  /\ uploadPc' = "validate"
  /\ UNCHANGED uploadResult
  /\ UNCHANGED dbVars
  /\ UNCHANGED viewVars
  /\ UNCHANGED loopVars
  /\ UNCHANGED parseVars

\* size and extension validation, then "Reading file..."
UploadValidate ==
  /\ uploadPc = "validate"
  /\ LET sizeValidation == validateFileSize(uploadFile.size, 10)
         extValidation == validateFileExtension(uploadFile.ext)
     IN IF ~ sizeValidation.valid THEN UploadCatch(progressEvents, sizeValidation.error)
        ELSE IF ~ extValidation.valid THEN UploadCatch(progressEvents, extValidation.error)
        ELSE /\ progressEvents' = Append(progressEvents, Event("reading", 20))
             /\ uploadPc' = "save"
             /\ UNCHANGED uploadResult
  /\ UNCHANGED uploadFile
  /\ UNCHANGED dbVars
  /\ UNCHANGED viewVars
  /\ UNCHANGED loopVars
  /\ UNCHANGED parseVars

\* a .csv buffer is written to targetPath
UploadSaveCsv ==
  /\ uploadPc = "save"
  /\ uploadFile.ext = ".csv"
  /\ progressEvents' = Append(progressEvents, Event("reading", 40))
  /\ uploadPc' = "ingest"
  /\ UNCHANGED << uploadFile, uploadResult >>
  /\ UNCHANGED dbVars
  /\ UNCHANGED viewVars
  /\ UNCHANGED loopVars
  /\ UNCHANGED parseVars

\* any other accepted file is read with XLSX.read and converted to CSV
UploadConvertExcel ==
  /\ uploadPc = "save"
  /\ uploadFile.ext # ".csv"
  /\ LET parsing == Append(progressEvents, Event("parsing", 30))
     IN IF ~ uploadFile.parses THEN UploadCatch(parsing, "parse error")
        ELSE /\ progressEvents' = parsing \o << Event("parsing", 50), Event("parsing", 60) >>
             /\ uploadPc' = "ingest"
             /\ UNCHANGED uploadResult
  /\ UNCHANGED uploadFile
  /\ UNCHANGED dbVars
  /\ UNCHANGED viewVars
  /\ UNCHANGED loopVars
  /\ UNCHANGED parseVars

\* "Processing records...", then ingestSingleFile up to its insert
\* transaction: "Reading file...", readCSV, "No records found" or "Found n records"
UploadIngestRead ==
  /\ uploadPc = "ingest"
  /\ LET started == progressEvents \o << Event("inserting", 70), onProgress(0) >>
         read == readCSV(savedFile(uploadFile))
     IN IF read.throws THEN UploadCatch(started, read.error)
        ELSE IF read.rows = 0
             THEN /\ progressEvents' = Append(started, onProgress(100))
                  /\ uploadPc' = "complete"
                  /\ UNCHANGED uploadResult
             ELSE /\ progressEvents' = Append(started, onProgress(10))
                  /\ uploadPc' = "insert"
                  /\ UNCHANGED uploadResult
  /\ UNCHANGED uploadFile
  /\ UNCHANGED dbVars
  /\ UNCHANGED viewVars
  /\ UNCHANGED loopVars
  /\ UNCHANGED parseVars

\* the insert transaction of ingestSingleFile, with its row progress
UploadIngestInsert ==
  /\ uploadPc = "insert"
  /\ progressEvents' = progressEvents \o rowEvents(uploadFile.rows)
  /\ uploadPc' = "aggregate"
  /\ UNCHANGED << uploadFile, uploadResult >>
  /\ UNCHANGED dbVars
  /\ UNCHANGED viewVars
  /\ UNCHANGED loopVars
  /\ UNCHANGED parseVars

\* the aggregation transaction of ingestSingleFile, with its progress, then "Complete"
UploadIngestAggregate ==
  /\ uploadPc = "aggregate"
  /\ progressEvents' = (progressEvents \o aggregateEvents(uploadFile.groups))
                         \o << onProgress(100) >>
  /\ uploadPc' = "complete"
  /\ UNCHANGED << uploadFile, uploadResult >>
  /\ UNCHANGED dbVars
  /\ UNCHANGED viewVars
  /\ UNCHANGED loopVars
  /\ UNCHANGED parseVars

\* writing the file or one of the transactions throws (disk or storage
\* failure), after some of the progress events of that step
UploadThrow ==
  /\ uploadPc \in {"save", "insert", "aggregate"}
  /\ LET stepEvents == IF uploadPc = "insert" THEN rowEvents(uploadFile.rows)
                       ELSE IF uploadPc = "aggregate" THEN aggregateEvents(uploadFile.groups)
                       ELSE << >>
     IN \E k \in 0..Len(stepEvents) :
          UploadCatch(progressEvents \o SubSeq(stepEvents, 1, k), "storage failure")
  /\ UNCHANGED uploadFile
  /\ UNCHANGED dbVars
  /\ UNCHANGED viewVars
  /\ UNCHANGED loopVars
  /\ UNCHANGED parseVars

\* "Upload complete!", { ok: true, ... }
UploadComplete ==
  /\ uploadPc = "complete"
  /\ progressEvents' = Append(progressEvents, Event("complete", 100))
  /\ uploadResult' = UploadResult("upload-file", TRUE, "", uploadFile.rows)
  /\ uploadPc' = "done"
  /\ UNCHANGED uploadFile
  /\ UNCHANGED dbVars
  /\ UNCHANGED viewVars
  /\ UNCHANGED loopVars
  /\ UNCHANGED parseVars

\* ingestSingleFile called on a path by another caller than upload-file:
\* what it returns or throws before it touches the store
IngestCall(file) ==
  /\ uploadPc \in {"idle", "done"}
  /\ uploadFile' = file
  /\ LET read == readCSV(file)
     IN uploadResult' = IF read.throws
                        THEN UploadResult("ingestSingleFile", FALSE, read.error, 0)
                        ELSE UploadResult("ingestSingleFile", TRUE, "", read.rows)
  /\ progressEvents' = << >>
  /\ uploadPc' = "idle"
  /\ UNCHANGED dbVars
  /\ UNCHANGED viewVars
  /\ UNCHANGED loopVars
  /\ UNCHANGED parseVars

UploadNext ==
  \/ \E file \in Buffers : UploadBegin(file)
  \/ UploadValidate
  \/ UploadSaveCsv
  \/ UploadConvertExcel
  \/ UploadIngestRead
  \/ UploadIngestInsert
  \/ UploadIngestAggregate
  \/ UploadThrow
  \/ UploadComplete
  \/ \E file \in Paths : IngestCall(file)

UploadSpec == Init /\ [][UploadNext]_vars

(* ------------------------- reading the cache --------------------------- *)
RECURSIVE SplitCommaSpace(_, _)
\* str.split(", ")
SplitCommaSpace(s, tok) ==
  IF s = << >> THEN << tok >>
  ELSE IF Len(s) >= 2 /\ s[1] = "," /\ s[2] = " "
       THEN << tok >> \o SplitCommaSpace(SubSeq(s, 3, Len(s)), << >>)
       ELSE SplitCommaSpace(Tail(s), Append(tok, Head(s)))

\* r.punches ? r.punches.split(", ").map(t => t.trim()) : [] on the row of
\* an employee-day, [] when the day has no row
readPunches(dl, k) ==
  IF k \in DOMAIN dl /\ dl[k].punches # << >>
  THEN LET parts == SplitCommaSpace(dl[k].punches, << >>)
       IN [i \in 1..Len(parts) |-> Trim(parts[i])]
  ELSE << >>

(* ------------------------------ views ---------------------------------- *)
\* Minutes are exact rationals, held as a whole number of sixtieths of a
\* minute: Min(n) is the literal n minutes, and h * 60 + m + s / 60 is
\* Min(h * 60 + m) + s.
Min(n) == 60 * n

\* the null a time conversion returns (no minute count is negative)
NoMinutes == -1

\* dateTimeUtils timeToMinutes (utilTimeToMinutes): h * 60 + m + s / 60 of
\* the normalized time, null when normalizeTime rejects it
timeToMinutes(time) ==
  LET normalized == normalizeTime(time)
  IN IF normalized = Null THEN NoMinutes
     ELSE LET parts == SplitOn(normalized, {":"}, FALSE, << >>)
              h == NumVal(parts[1])
              m == NumVal(parts[2])
              sec == IF Len(parts) >= 3 THEN NumVal(parts[3]) ELSE 0
          IN Min(h * 60 + m) + sec

\* timeToMinutes of monthlyGridReport.js, monthlySummary and DailyReport.jsx:
\* parseInt of the first two ":" fields, h * 60 + m; the seconds are not read
wholeTimeToMinutes(time) ==
  IF time = Null THEN NoMinutes
  ELSE LET parts == SplitOn(time, {":"}, FALSE, << >>)
       IN IF Len(parts) < 2 \/ parts[1] = << >> \/ parts[2] = << >>
             \/ ~ AllDigits(parts[1]) \/ ~ AllDigits(parts[2])
          THEN NoMinutes
          ELSE Min(NumVal(parts[1]) * 60 + NumVal(parts[2]))

\* days from 1970-01-01 to the civil date y-m-d
daysFromCivil(y, m, d) ==
  LET yy == IF m <= 2 THEN y - 1 ELSE y
      era == yy \div 400
      yoe == yy - era * 400
      mp == IF m > 2 THEN m - 3 ELSE m + 9
      doy == (153 * mp + 2) \div 5 + d - 1
      doe == yoe * 365 + yoe \div 4 - yoe \div 100 + doy
  IN era * 146097 + doe - 719468

yearOf(dateStr) == NumVal(SubSeq(dateStr, 1, 4))

monthOf(dateStr) == NumVal(SubSeq(dateStr, 6, 7))

dayOf(dateStr) == NumVal(SubSeq(dateStr, 9, 10))

\* new Date(y, m, 0).getDate(): the number of days of month m of year y
daysInMonthOf(y, m) ==
  IF m = 2 THEN (IF (y % 4 = 0 /\ y % 100 # 0) \/ y % 400 = 0 THEN 29 ELSE 28)
  ELSE IF m \in {4, 6, 9, 11} THEN 30 ELSE 31

\* new Date("YYYY-MM-DD") is midnight UTC of that date: the local calendar
\* day it falls on is that date, or the day before in a zone behind UTC
localDay(dateStr, west) ==
  daysFromCivil(yearOf(dateStr), monthOf(dateStr), dayOf(dateStr)) - (IF west THEN 1 ELSE 0)

\* new Date(dateStr).getDay(): 0 is Sunday (1970-01-01 was a Thursday)
getDay(dateStr, west) == (localDay(dateStr, west) + 4) % 7

\* isPastDate: d < today after both are set to local midnight
isPastDate(dateStr, now_, west) ==
  localDay(dateStr, west) < daysFromCivil(yearOf(now_), monthOf(now_), dayOf(now_))

\* `${month}-${String(day).padStart(2, "0")}`
dateOfMonth(month, day) == month \o << "-" >> \o Pad2(day)

\* getDatesInMonth
getDatesInMonth(month) ==
  [d \in 1..daysInMonthOf(yearOf(month), monthOf(month)) |-> dateOfMonth(month, d)]

\* limitDay without the future-month branch: a month after the current one
\* is iterated in full
limitDay_futureInFull(month, now_) ==
  IF yearOf(month) = yearOf(now_) /\ monthOf(month) = monthOf(now_) THEN dayOf(now_)
  ELSE daysInMonthOf(yearOf(month), monthOf(month))

\* limitDay of the monthly reports: every day of a past month, the days up
\* to today of the current month, none of a future month
limitDay(month, now_) ==
  LET targetYear == yearOf(month)
      targetMonth == monthOf(month)
      currentYear == yearOf(now_)
      currentMonth == monthOf(now_)
  IN IF targetYear = currentYear /\ targetMonth = currentMonth THEN dayOf(now_)
     ELSE IF targetYear > currentYear \/ (targetYear = currentYear /\ targetMonth > currentMonth)
          THEN 0
     ELSE daysInMonthOf(targetYear, targetMonth)

RECURSIVE sortStrings(_)
\* Array.prototype.sort() on strings
sortStrings(seq) ==
  IF seq = << >> THEN << >>
  ELSE LET i == CHOOSE x \in 1..Len(seq) : \A y \in 1..Len(seq) : ~ StrLess(seq[y], seq[x])
       IN << seq[i] >> \o sortStrings([k \in 1..(Len(seq) - 1) |-> IF k < i THEN seq[k] ELSE seq[k + 1]])

Day(status, firstIn, lastOut, workedMinutes) ==
  [status |-> status, firstIn |-> firstIn, lastOut |-> lastOut, workedMinutes |-> workedMinutes]

\* byDate[r.date]: r.punches.split(", ").map(t => t.trim()).filter(Boolean)
punchesByDate(dl, k) == SelectSeq(readPunches(dl, k), LAMBDA t : t # << >>)

\* api:get-attendance with a month: the record of one date of the calendar
attendanceOfDate(punches, date, now_, west) ==
  LET isSunday == getDay(date, west) = 0
  IN IF Len(punches) = 0
     THEN Day(IF isSunday THEN "Weekly Off"
              ELSE IF isPastDate(date, now_, west) THEN "Absent" ELSE "Pending",
              Null, Null, 0)
     ELSE LET firstIn == punches[1]
              lastOut == punches[Len(punches)]
              inMin == timeToMinutes(firstIn)
              outMin == timeToMinutes(lastOut)
          IN IF inMin # NoMinutes /\ outMin # NoMinutes /\ outMin > inMin
             THEN LET workedMinutes == outMin - inMin
                  IN Day(IF isSunday
                         THEN (IF workedMinutes >= Min(5 * 60) THEN "WO Worked" ELSE "Weekly Off")
                         ELSE IF workedMinutes >= Min(8 * 60) THEN "Full Day"
                         ELSE IF workedMinutes >= Min(5 * 60) THEN "Half Day"
                         ELSE "Absent",
                         firstIn, lastOut, workedMinutes)
             ELSE Day(IF isSunday THEN "Weekly Off" ELSE "Absent", firstIn, lastOut, 0)

\* api:get-attendance without a month: the record of one daily_attendance row
attendanceOfRow(punches, date, west) ==
  LET firstIn == IF Len(punches) > 0 THEN punches[1] ELSE Null
      lastOut == IF Len(punches) > 0 THEN punches[Len(punches)] ELSE Null
      inMin == timeToMinutes(firstIn)
      outMin == timeToMinutes(lastOut)
      isSunday == getDay(date, west) = 0
  IN IF inMin # NoMinutes /\ outMin # NoMinutes /\ outMin > inMin
     THEN LET workedMinutes == outMin - inMin
          IN Day(IF isSunday THEN "WO Worked"
                 ELSE IF workedMinutes >= Min(8 * 60) THEN "Full Day"
                 ELSE IF workedMinutes >= Min(5 * 60) THEN "Half Day"
                 ELSE "Absent",
                 firstIn, lastOut, workedMinutes)
     ELSE Day(IF isSunday THEN "Weekly Off" ELSE "Absent", firstIn, lastOut, 0)

\* getDayDetails of monthlyGridReport.js; punches is the stored string or null
getDayDetails(punches, dateStr, west) ==
  LET isSunday == getDay(dateStr, west) = 0
  IN IF punches = Null \/ Trim(punches) = << >>
     THEN Day(IF isSunday THEN "WO" ELSE "A", Null, Null, 0)
     ELSE LET parts == SplitCommaSpace(punches, << >>)
              times == sortStrings([i \in 1..Len(parts) |-> Trim(parts[i])])
              firstIn == times[1]
              lastOut == times[Len(times)]
              inMins == wholeTimeToMinutes(firstIn)
              outMins == wholeTimeToMinutes(lastOut)
          IN IF inMins # NoMinutes /\ outMins # NoMinutes /\ outMins > inMins
             THEN LET workedMins == outMins - inMins
                  IN Day(IF isSunday THEN (IF workedMins >= Min(5 * 60) THEN "WW" ELSE "WO")
                         ELSE IF workedMins >= Min(8 * 60) THEN "P"
                         ELSE IF workedMins >= Min(5 * 60) THEN "HD"
                         ELSE "A",
                         firstIn, lastOut, workedMins)
             ELSE Day(IF isSunday THEN "WO" ELSE "A", firstIn, lastOut, 0)

\* the stored punches string of an employee-day, null when it has no row
punchesString(dl, k) == IF k \in DOMAIN dl THEN dl[k].punches ELSE Null

RECURSIVE breakMinutes(_, _)
\* the break loop of fetchDailyReport: the gaps punches[i]..punches[i + 1]
\* for i = 1, 3, ... below punches.length - 1 (0-based), from the 1-based
\* index i on
breakMinutes(punches, i) ==
  IF i >= Len(punches) THEN 0
  ELSE LET outTime == wholeTimeToMinutes(punches[i])
           inTime == wholeTimeToMinutes(punches[i + 1])
       IN (IF outTime > 0 /\ inTime > 0 /\ inTime > outTime THEN inTime - outTime ELSE 0)
            + breakMinutes(punches, i + 2)

\* fetchDailyReport of DailyReport.jsx: the row of one employee
dailyReportRow(punchesStr, date, west) ==
  LET parts == IF punchesStr # Null THEN SplitCommaSpace(punchesStr, << >>) ELSE << >>
      punches == sortStrings([i \in 1..Len(parts) |-> Trim(parts[i])])
      isSunday == getDay(date, west) = 0
  IN IF Len(punches) > 0
     THEN LET firstIn == punches[1]
              lastOut == punches[Len(punches)]
              inMin == wholeTimeToMinutes(firstIn)
              outMin == wholeTimeToMinutes(lastOut)
          IN IF inMin # NoMinutes /\ outMin # NoMinutes /\ outMin > inMin
             THEN LET totalMins == outMin - inMin
                      breakMins == breakMinutes(punches, 2)
                      workingMins == totalMins - breakMins
                  IN [status |-> IF isSunday
                                 THEN (IF workingMins >= Min(5 * 60) THEN "WO Worked" ELSE "Weekly Off")
                                 ELSE IF workingMins >= Min(8 * 60) THEN "Full Day"
                                 ELSE IF workingMins >= Min(5 * 60) THEN "Half Day"
                                 ELSE "Absent",
                      firstIn |-> firstIn, lastOut |-> lastOut, workedMinutes |-> workingMins,
                      breakMins |-> breakMins]
             ELSE [status |-> "Absent", firstIn |-> firstIn, lastOut |-> lastOut,
                   workedMinutes |-> 0, breakMins |-> 0]
     ELSE [status |-> IF isSunday THEN "Weekly Off" ELSE "Absent", firstIn |-> Null,
           lastOut |-> Null, workedMinutes |-> 0, breakMins |-> 0]

\* the per-day branch of generateMonthlyReport: the counters one day increments
countersOfDay(punchesStr, dateStr, west) ==
  LET isSunday == getDay(dateStr, west) = 0
      hasLog == punchesStr # Null
      parts == IF hasLog /\ punchesStr # << >> THEN SplitCommaSpace(punchesStr, << >>) ELSE << >>
      times == sortStrings([i \in 1..Len(parts) |-> Trim(parts[i])])
      first_in == IF Len(times) > 0 THEN times[1] ELSE Null
      last_out == IF Len(times) > 0 THEN times[Len(times)] ELSE Null
      inMins == wholeTimeToMinutes(first_in)
      outMins == wholeTimeToMinutes(last_out)
  IN IF hasLog
     THEN IF inMins # NoMinutes /\ outMins # NoMinutes /\ outMins > inMins
          THEN LET workedMins == outMins - inMins
               IN IF isSunday /\ workedMins < Min(5 * 60) THEN {"weeklyOff"}
                  ELSE IF workedMins >= Min(8 * 60)
                       THEN {"present"} \cup (IF isSunday THEN {"woWorked"} ELSE {})
                  ELSE IF workedMins >= Min(5 * 60)
                       THEN {"halfDay"} \cup (IF isSunday THEN {"woWorked"} ELSE {})
                  ELSE {"absent"}
          ELSE IF isSunday THEN {"weeklyOff"} ELSE {"absent"}
     ELSE IF isSunday THEN {"weeklyOff"} ELSE {"absent"}

\* generateMonthlyReport: the stats of one employee; totalPresent, present
\* + halfDay * 0.5, is held as a number of half days
monthlyStats(dl, emp, month, now_, west) ==
  LET days == 1..limitDay(month, now_)
      count(c) == Cardinality({d \in days :
                     c \in countersOfDay(punchesString(dl, << emp, dateOfMonth(month, d) >>),
                                         dateOfMonth(month, d), west)})
  IN [present |-> count("present"), halfDay |-> count("halfDay"), absent |-> count("absent"),
      weeklyOff |-> count("weeklyOff"), woWorked |-> count("woWorked"),
      totalPresent |-> 2 * count("present") + count("halfDay")]

Range(seq) == {seq[i] : i \in 1..Len(seq)}

\* the views are asked about January and February 2024
Month202401 == << "2","0","2","4","-","0","1" >>

Month202402 == << "2","0","2","4","-","0","2" >>

DateFeb15 == << "2","0","2","4","-","0","2","-","1","5" >>

\* punch cells of the one-row files the store of the views is filled from
Cell0900_1700 == << "0","9",":","0","0"," ","1","7",":","0","0" >>

Cell090030_170000 == << "0","9",":","0","0",":","3","0"," ","1","7",":","0","0",":","0","0" >>

Cell0900_1359 == << "0","9",":","0","0"," ","1","3",":","5","9" >>

Cell0900_1400 == << "0","9",":","0","0"," ","1","4",":","0","0" >>

CellWithBreak == << "0","9",":","0","0"," ","1","2",":","0","0"," ","1","4",":","0","0"," ","1","8",":","0","0" >>

Cell0900_1000 == << "0","9",":","0","0"," ","1","0",":","0","0" >>

ReportCells ==
  {Cell0900_1700, Cell090030_170000, Cell0900_1359, Cell0900_1400, CellWithBreak,
   Cell0900_1800, Cell0900_1000, Cell0900}

ReportDates == {DateIso7, DateIso8, DateFeb15}

Months == {Month202401, Month202402}

Todays == {DateIso8, DateFeb15}

\* the store after one completed ingestion of a file with one row of
\* employee E1, on some day and in some zone
ReportInit ==
  /\ \E cell \in ReportCells, date \in ReportDates :
       LET st == processRows(TxStart({}, {}), << Row(E1, date, cell) >>, 1)
       IN /\ employees = st.employees
          /\ logs = st.logs
          /\ uploads = updateUpload(insertUpload(<< >>, 1, "a.csv"), st.inserted, st.skipped,
                                    st.emptyRecordsCount, 1)
          /\ daily = aggregateDays(<< >>, st.logs, st.affectedDays, 1, 0)
          /\ lastResult = Result("ingest", TRUE, "", 1, st.inserted, st.skipped, 1, 0)
          /\ insertedBy = st.written
          /\ lastOp = OpRecord("ingest", "a.csv", 1, << >>, daily, st.inserted, st.affectedDays,
                               st.filePunches, {}, 0, FALSE, NoUndone)
  /\ idsIssued = 1
  /\ now = 0
  /\ pc = "idle"
  /\ cur = NoCur
  /\ aborted = FALSE
  /\ uploadPc = "idle"
  /\ uploadFile = NoFile
  /\ progressEvents = << >>
  /\ uploadResult = NoUploadResult
  /\ today \in Todays
  /\ tzWest \in BOOLEAN
  /\ answer = NoAnswer
  /\ tasks = << >>
  /\ running = 0
  /\ parsed = NoCall

\* api:get-attendance with a month: the calendar of the month
GetAttendanceMonth(employeeId, month) ==
  /\ answer' = Answer("attendance-month", month, {employeeId},
                      [k \in {<< employeeId, d >> : d \in Range(getDatesInMonth(month))} |->
                         attendanceOfDate(punchesByDate(daily, k), k[2], today, tzWest)])
  /\ UNCHANGED << today, tzWest >>
  /\ UNCHANGED loopVars
  /\ UNCHANGED parseVars
  /\ UNCHANGED dbVars
  /\ UNCHANGED ipcVars

\* api:get-attendance without a month: one record per daily_attendance row
GetAttendanceAll(employeeId) ==
  /\ answer' = Answer("attendance-all", << >>, {employeeId},
                      [k \in {x \in DOMAIN daily : x[1] = employeeId} |->
                         attendanceOfRow(readPunches(daily, k), k[2], tzWest)])
  /\ UNCHANGED << today, tzWest >>
  /\ UNCHANGED loopVars
  /\ UNCHANGED parseVars
  /\ UNCHANGED dbVars
  /\ UNCHANGED ipcVars

\* api:get-monthly-grid-report: dailyStatus of every employee
GenerateMonthlyGridReport(month) ==
  /\ answer' = Answer("grid", month, employees,
                      [k \in {<< e, dateOfMonth(month, d) >> :
                                e \in employees, d \in 1..limitDay(month, today)} |->
                         getDayDetails(punchesString(daily, k), k[2], tzWest)])
  /\ UNCHANGED << today, tzWest >>
  /\ UNCHANGED loopVars
  /\ UNCHANGED parseVars
  /\ UNCHANGED dbVars
  /\ UNCHANGED ipcVars

\* fetchDailyReport of the daily report page: one row per employee
FetchDailyReport(date) ==
  /\ answer' = Answer("daily", date, employees,
                      [k \in {<< e, date >> : e \in employees} |->
                         dailyReportRow(punchesString(daily, k), date, tzWest)])
  /\ UNCHANGED << today, tzWest >>
  /\ UNCHANGED loopVars
  /\ UNCHANGED parseVars
  /\ UNCHANGED dbVars
  /\ UNCHANGED ipcVars

\* api:get-monthly-report: the stats of every employee
GenerateMonthlyReport(month) ==
  /\ answer' = Answer("monthly-report", month, employees,
                      [e \in employees |-> monthlyStats(daily, e, month, today, tzWest)])
  /\ UNCHANGED << today, tzWest >>
  /\ UNCHANGED loopVars
  /\ UNCHANGED parseVars
  /\ UNCHANGED dbVars
  /\ UNCHANGED ipcVars

ReportNext ==
  \/ \E e \in {E1}, month \in Months : GetAttendanceMonth(e, month)
  \/ \E e \in {E1} : GetAttendanceAll(e)
  \/ \E month \in Months : GenerateMonthlyGridReport(month)
  \/ \E date \in ReportDates \cup Todays : FetchDailyReport(date)
  \/ \E month \in Months : GenerateMonthlyReport(month)

ReportSpec == ReportInit /\ [][ReportNext]_vars

(* ------------------------------ parsers -------------------------------- *)
\* the tokens the dates offered to normalizeDate are made of: a four-digit
\* and a two-digit year, a day or month with and without padding, a month
\* name, a word and the empty token
DateTokens ==
  { << "2","0","2","4" >>, << "2","4" >>, << "0","7" >>, << "7" >>, << "J","a","n" >>,
    << "x","x" >>, << >> }

MaxDateTokens == 3

\* the dates offered: two to MaxDateTokens tokens joined by "-" or by "/",
\* four numeric tokens, and the empty string
DateInputs ==
  {JoinWith(parts, << sep >>) :
     parts \in UNION {[1..n -> DateTokens] : n \in 2..MaxDateTokens},
     sep \in {"-", "/"}}
  \cup {JoinWith(parts, << "-" >>) : parts \in [1..4 -> {<< "2","0","2","4" >>, << "7" >>}]}
  \cup {Null}

\* the characters the tokenizer's pattern /[,;\n|\s]+/ matches
Separators == {",", ";", "\n", "|"} \cup Whitespace

MaxSeparators == 3

\* the separator runs between two times of a cell
SeparatorRuns == UNION {[1..n -> Separators] : n \in 1..MaxSeparators}

\* the time tokens of the cells offered
TimeTokens == { << "0","9",":","0","0" >>, << "1","8",":","0","0" >>, << "9",".","3","0" >> }

\* the cells offered to the tokenizer: two times with a separator run between
CellInputs ==
  {t1 \o run \o t2 : t1 \in TimeTokens, t2 \in TimeTokens, run \in SeparatorRuns}

\* the empty store, with a raw date or a raw punch cell of a row about to
\* be parsed
ParseInit ==
  /\ employees = {}
  /\ logs = {}
  /\ uploads = << >>
  /\ daily = << >>
  /\ idsIssued = 0
  /\ now = 0
  /\ pc = "idle"
  /\ cur = NoCur
  /\ lastResult = NoResult
  /\ insertedBy = {}
  /\ aborted = FALSE
  /\ lastOp = NoOp
  /\ uploadPc = "idle"
  /\ uploadFile = NoFile
  /\ progressEvents = << >>
  /\ uploadResult = NoUploadResult
  /\ today = DateIso8
  /\ tzWest = FALSE
  /\ answer = NoAnswer
  /\ tasks = << >>
  /\ running = 0
  /\ parsed \in {Call("rawDate", dateStr, Null) : dateStr \in DateInputs}
                \cup {Call("rawPunchRecords", cell, Null) : cell \in CellInputs}

\* normalizeDate(rawDate) as the row loop calls it
NormalizeDate ==
  /\ parsed.fn = "rawDate"
  /\ parsed' = Call("normalizeDate", parsed.arg, normalizeDate(parsed.arg))
  /\ UNCHANGED dbVars
  /\ UNCHANGED ipcVars
  /\ UNCHANGED viewVars
  /\ UNCHANGED loopVars

\* the tokenizer of the row loop: the split of the cell, and the
\* timeEntries left after trim, the drop of empty tokens and normalizeTime
TokenizeCell ==
  /\ parsed.fn = "rawPunchRecords"
  /\ parsed' = Call("tokenize", parsed.arg,
                    [splits |-> splitPunchRecords(parsed.arg),
                     timeEntries |-> timeEntriesOf(parsed.arg)])
  /\ UNCHANGED dbVars
  /\ UNCHANGED ipcVars
  /\ UNCHANGED viewVars
  /\ UNCHANGED loopVars

ParseNext ==
  \/ NormalizeDate
  \/ TokenizeCell

ParseSpec == ParseInit /\ [][ParseNext]_vars

(* ------------------- handlers on the event loop ------------------------ *)
\* the most invocations made in one run
MaxTasks == 3

\* an invocation of an ipcMain handler: the channel, its argument, where the
\* handler stands and, for upload-file, the locals of its ingestSingleFile call
Task(kind, arg, at, locals) == [kind |-> kind, arg |-> arg, pc |-> at, locals |-> locals]

\* the files given to upload-file: the extension of the name and the rows the
\* saved csv holds
TaskFiles ==
  {[ext |-> ".csv", rows |-> "a.csv"], [ext |-> ".xlsx", rows |-> "b.csv"],
   [ext |-> ".csv", rows |-> "empty.csv"]}

\* the upload the history page asks to delete: the first one made
TaskDeletes == {1}

\* what the renderer may invoke
Invocations ==
  {Task("upload-file", f, "queued", NoCur) : f \in TaskFiles}
    \cup {Task("api:delete-upload", u, "queued", NoCur) : u \in TaskDeletes}
    \cup {Task("api:get-monthly-grid-report", Month202401, "queued", NoCur)}

\* everything the handlers on the event loop leave alone
loopFrame == << now, pc, cur, lastResult, insertedBy, aborted, lastOp, uploadPc, uploadFile,
                progressEvents, uploadResult, today, tzWest, parsed >>

\* the event loop runs a handler, or the continuation of an await, only when
\* the call stack is empty; the invocation on the stack runs on
CanStep(t) ==
  /\ t \in 1..Len(tasks)
  /\ running = 0 \/ running = t

At(t, at, locals) == [tasks EXCEPT ![t] = Task(@.kind, @.arg, at, locals)]

\* ingestSingleFile with an await between its two transactions: the stack is
\* empty after the first one
onStackAfter_alwaysYield(t, step) == 0

\* who is on the call stack after a step of ingestSingleFile: the function is
\* synchronous, so after its first transaction it is still the same
\* invocation; after the second it returns and the handler's await yields
onStackAfter(t, step) == IF step = "insert" THEN t ELSE 0

\* ipcRenderer.invoke: the message is queued, whatever the main process is doing
Invoke(task) ==
  /\ Len(tasks) < MaxTasks
  /\ tasks' = Append(tasks, task)
  /\ UNCHANGED << employees, logs, uploads, daily, idsIssued, running, answer >>
  /\ UNCHANGED loopFrame

\* upload-file up to its first await: validation and, for a csv, the save;
\* the handler is suspended at await import("xlsx") or at
\* await import("./backend/ingest.js")
UploadStart(t) ==
  /\ CanStep(t)
  /\ tasks[t].kind = "upload-file"
  /\ tasks[t].pc = "queued"
  /\ tasks' = At(t, IF tasks[t].arg.ext = ".csv" THEN "import" ELSE "xlsx", NoCur)
  /\ running' = 0
  /\ UNCHANGED << employees, logs, uploads, daily, idsIssued, answer >>
  /\ UNCHANGED loopFrame

\* upload-file resumed after await import("xlsx"): the conversion, up to
\* await import("./backend/ingest.js")
UploadConvert(t) ==
  /\ CanStep(t)
  /\ tasks[t].pc = "xlsx"
  /\ tasks' = At(t, "import", NoCur)
  /\ running' = 0
  /\ UNCHANGED << employees, logs, uploads, daily, idsIssued, answer >>
  /\ UNCHANGED loopFrame

\* upload-file resumed after the import: ingestSingleFile is called and, for
\* a file with rows, its first transaction commits; without rows it returns
UploadIngestInsertStep(t) ==
  /\ CanStep(t)
  /\ tasks[t].pc = "import"
  /\ idsIssued < MaxUploads
  /\ LET f == tasks[t].arg.rows
         uploadId == idsIssued + 1
     IN IF FileRows(f) = << >>
        THEN /\ tasks' = At(t, "result", NoCur)
             /\ running' = 0
             /\ UNCHANGED << employees, logs, uploads, idsIssued >>
        ELSE \E st \in {insertTransaction(FileRows(f), uploadId)} :
             /\ employees' = st.employees
             /\ logs' = st.logs
             /\ uploads' = insertUpload(uploads, uploadId, f)
             /\ idsIssued' = uploadId
             /\ tasks' = At(t, "aggregate",
                            [uploadId |-> uploadId, file |-> f, inserted |-> st.inserted,
                             skipped |-> st.skipped, total |-> Len(FileRows(f)),
                             emptyRecordsCount |-> st.emptyRecordsCount,
                             affectedDays |-> st.affectedDays,
                             filePunches |-> st.filePunches, storeBefore |-> store])
             /\ running' = onStackAfter(t, "insert")
  /\ UNCHANGED << daily, answer >>
  /\ UNCHANGED loopFrame

\* ingestSingleFile, second transaction, and its return: the handler is
\* suspended at await ingestSingleFile(...)
UploadIngestAggregateStep(t) ==
  /\ CanStep(t)
  /\ tasks[t].pc = "aggregate"
  /\ LET l == tasks[t].locals
     IN /\ daily' = aggregateDays(daily, logs, l.affectedDays, l.uploadId, now)
        /\ uploads' = updateUpload(uploads, l.inserted, l.skipped, l.emptyRecordsCount,
                                   l.uploadId)
  /\ tasks' = At(t, "result", NoCur)
  /\ running' = onStackAfter(t, "aggregate")
  /\ UNCHANGED << employees, logs, idsIssued, answer >>
  /\ UNCHANGED loopFrame

\* a transaction of ingestSingleFile throws: it is rolled back, the catch
\* block of the handler answers { ok: false } on the same stack
UploadIngestThrow(t) ==
  /\ CanStep(t)
  /\ tasks[t].pc \in {"import", "aggregate"}
  /\ tasks' = At(t, "done", NoCur)
  /\ running' = 0
  /\ UNCHANGED << employees, logs, uploads, daily, idsIssued, answer >>
  /\ UNCHANGED loopFrame

\* upload-file resumed after await ingestSingleFile(...): "complete" is sent
\* and { ok: true, ... } returned
UploadFinish(t) ==
  /\ CanStep(t)
  /\ tasks[t].pc = "result"
  /\ tasks' = At(t, "done", NoCur)
  /\ running' = 0
  /\ UNCHANGED << employees, logs, uploads, daily, idsIssued, answer >>
  /\ UNCHANGED loopFrame

\* api:delete-upload: a synchronous handler, one transaction
DeleteUploadRun(t) ==
  /\ CanStep(t)
  /\ tasks[t].kind = "api:delete-upload"
  /\ tasks[t].pc = "queued"
  /\ LET tx == deleteTransaction(tasks[t].arg)
     IN IF tx.throws
        THEN UNCHANGED << uploads, logs, daily >>
        ELSE /\ uploads' = tx.uploads
             /\ logs' = tx.logs
             /\ daily' = tx.daily
  /\ tasks' = At(t, "done", NoCur)
  /\ running' = 0
  /\ UNCHANGED << employees, idsIssued, answer >>
  /\ UNCHANGED loopFrame

\* api:get-monthly-grid-report: a synchronous handler, two SELECTs
GridReportRun(t) ==
  /\ CanStep(t)
  /\ tasks[t].kind = "api:get-monthly-grid-report"
  /\ tasks[t].pc = "queued"
  /\ answer' = Answer("grid", tasks[t].arg, employees,
                      [k \in {<< e, dateOfMonth(tasks[t].arg, d) >> :
                                e \in employees, d \in 1..limitDay(tasks[t].arg, today)} |->
                         getDayDetails(punchesString(daily, k), k[2], tzWest)])
  /\ tasks' = At(t, "done", NoCur)
  /\ running' = 0
  /\ UNCHANGED << employees, logs, uploads, daily, idsIssued >>
  /\ UNCHANGED loopFrame

LoopNext ==
  \/ \E task \in Invocations : Invoke(task)
  \/ \E t \in 1..MaxTasks : UploadStart(t)
  \/ \E t \in 1..MaxTasks : UploadConvert(t)
  \/ \E t \in 1..MaxTasks : UploadIngestInsertStep(t)
  \/ \E t \in 1..MaxTasks : UploadIngestAggregateStep(t)
  \/ \E t \in 1..MaxTasks : UploadIngestThrow(t)
  \/ \E t \in 1..MaxTasks : UploadFinish(t)
  \/ \E t \in 1..MaxTasks : DeleteUploadRun(t)
  \/ \E t \in 1..MaxTasks : GridReportRun(t)

LoopSpec == Init /\ [][LoopNext]_vars

(* --------------------------- properties -------------------------------- *)
\* a canonical time as seconds since midnight ("HH:MM" has no seconds field)
Seconds(t) ==
  3600 * NumVal(SubSeq(t, 1, 2)) + 60 * NumVal(SubSeq(t, 4, 5))
    + (IF Len(t) = 8 THEN NumVal(SubSeq(t, 7, 8)) ELSE 0)

\* seq lists exactly the times of S, each once, in ascending order
SortedListOf(seq, S) ==
  /\ Range(seq) = S
  /\ Len(seq) = Cardinality(S)
  /\ \A i, j \in 1..Len(seq) : i < j => (StrLess(seq[i], seq[j]) /\ Seconds(seq[i]) <= Seconds(seq[j]))

\* the employee-days known to the store
EmployeeDays == {<< l.employee_id, l.date >> : l \in logs} \cup DOMAIN daily

StoredTimes(k) == {l.time : l \in {x \in logs : x.employee_id = k[1] /\ x.date = k[2]}}

\* no ingestion is between its transactions and none was cut short
Completed == pc = "idle" /\ ~ aborted

C2_PunchesNeverAheadOfCache ==
  \A l \in logs :
    /\ << l.employee_id, l.date >> \in DOMAIN daily
    /\ l.time \in Range(readPunches(daily, << l.employee_id, l.date >>))

\* C3 (as claimed): a step in which ingestion throws leaves the store as it
\* was before the batch began.
C3_FailedBatchLeavesNoTrace ==
  [][ /\ (pc = "aggregating" /\ pc' = "idle" /\ ~ lastResult'.ok)
           => store' = cur.storeBefore
      /\ (\E f \in FileNames : IngestInsertThrow(f)) => store' = store ]_vars

\* C4 (as claimed): no two stored punches of one employee and date fall on
\* the identical second.
C4_NoTwoPunchesAtSameSecond ==
  \A l1, l2 \in logs :
    (l1.employee_id = l2.employee_id /\ l1.date = l2.date
       /\ Seconds(l1.time) = Seconds(l2.time)) => l1 = l2

Content(dl, k) ==
  IF k \in DOMAIN dl THEN << dl[k].punches, dl[k].upload_ids >> ELSE << >>

\* an ingestion that directly follows a completed ingestion of the same file
IsRepeatRun == lastOp.kind = "ingest" /\ lastOp.repeat

\* C6 (as claimed): the second of two consecutive ingestions of one file
\* inserts nothing and leaves every cache row unchanged.
C6_ReingestLeavesRowsUnchanged ==
  IsRepeatRun => (lastOp.inserted = 0 /\ lastOp.after = lastOp.before)

\* C6 (amended): the second of two consecutive ingestions of one file
\* inserts nothing, adds and removes no cache row and leaves the punch list
\* and contributing uploads of every row unchanged; only updated_at of the
\* rows of the file's employee-days may change.
C6_ReingestKeepsRowContent ==
  IsRepeatRun =>
    /\ lastOp.inserted = 0
    /\ DOMAIN lastOp.after = DOMAIN lastOp.before
    /\ \A k \in DOMAIN lastOp.after :
         /\ Content(lastOp.after, k) = Content(lastOp.before, k)
         /\ k \notin lastOp.days => lastOp.after[k] = lastOp.before[k]

\* C6 witness: a repeated ingestion of a file with punches rewrote a row
\* a second later
C6_Witness ==
  /\ IsRepeatRun
  /\ lastOp.days # {}
  /\ \E k \in lastOp.days : lastOp.after[k].updated_at # lastOp.before[k].updated_at

\* an ingestion that directly follows the deletion of an upload made from
\* the same file, with no ingestion cut short before
IsUndoRun == lastOp.kind = "ingest" /\ lastOp.undone.upload # 0 /\ ~ aborted

\* the contributing uploads of a row with the deleted upload's id renamed
Renamed(ids, old, new) == {IF ids[i] = old THEN new ELSE ids[i] : i \in 1..Len(ids)}

\* the rows of day k agree, up to renaming upload old to new
SameUpToRenaming(before, after, k, old, new) ==
  /\ (k \in DOMAIN before) <=> (k \in DOMAIN after)
  /\ k \in DOMAIN before =>
       /\ after[k].punches = before[k].punches
       /\ Range(after[k].upload_ids) = Renamed(before[k].upload_ids, old, new)

\* C7 (as claimed): deleting an upload and re-ingesting its file restores
\* the cache rows of the days the upload had punches on, up to the upload id.
C7_DeleteThenReingestRestores ==
  IsUndoRun =>
    \A k \in lastOp.undone.days :
      SameUpToRenaming(lastOp.undone.before, lastOp.after, k, lastOp.undone.upload, lastOp.upload)

\* C7 (amended): the same, for every day of the file, when every punch of
\* the file was stored at the time of the deletion (none of them was owned by
\* another upload that has been deleted since).
C7_DeleteThenReingestRestoresWhenAllStored ==
  (IsUndoRun /\ lastOp.filePunches \subseteq lastOp.undone.storedBefore) =>
    \A k \in lastOp.undone.days \cup lastOp.days :
      SameUpToRenaming(lastOp.undone.before, lastOp.after, k, lastOp.undone.upload, lastOp.upload)

\* C7 witness: the deleted upload shared a day with another upload, and its
\* file was re-ingested with all its punches stored before the deletion
C7_Witness ==
  /\ IsUndoRun
  /\ lastOp.filePunches \subseteq lastOp.undone.storedBefore
  /\ \E k \in lastOp.undone.days :
       /\ Len(lastOp.after[k].upload_ids) >= 2
       /\ lastOp.upload \in Range(lastOp.after[k].upload_ids)

\* C8: after completed ingestions and deletions, the contributing uploads
\* of every cache row are exactly the uploads tagged on the punches stored
\* for that day, all of them existing uploads.
C8_ContributorsAreTaggedUploads ==
  Completed =>
    \A k \in DOMAIN daily :
      /\ Range(daily[k].upload_ids) =
           {l.upload_id : l \in {x \in logs : x.employee_id = k[1] /\ x.date = k[2]}}
      /\ Range(daily[k].upload_ids) \subseteq DOMAIN uploads

\* C8 witness: a row with two contributors lost one of them to a deletion
C8_Witness ==
  /\ Completed
  /\ lastOp.kind = "delete"
  /\ \E k \in DOMAIN daily :
       /\ k \in DOMAIN lastOp.before
       /\ Len(lastOp.before[k].upload_ids) >= 2
       /\ lastOp.upload \in Range(lastOp.before[k].upload_ids)
       /\ lastOp.upload \notin Range(daily[k].upload_ids)
       /\ daily[k].upload_ids # << >>

\* C9 (as claimed): a successful deletion returns the number of raw punch
\* rows it removed.
C9_DeleteReturnsRemovedCount ==
  (lastOp.kind = "delete" /\ lastResult.ok) => lastResult.logsDeleted = lastOp.removed

\* C10: deleting an upload id that is not in the uploads table fails with
\* "Upload not found" and changes nothing in the store.
C10_DeleteUnknownIsError ==
  [][ \A u \in UploadIds :
        (u \notin DOMAIN uploads /\ DeleteUpload(u)) =>
          /\ ~ lastResult'.ok
          /\ lastResult'.error = "Upload not found"
          /\ store' = store ]_vars

\* C10 witness: an unknown id was refused while the store held punches
C10_Witness ==
  /\ lastResult.op = "delete"
  /\ ~ lastResult.ok
  /\ lastResult.error = "Upload not found"
  /\ lastResult.uploadId \notin DOMAIN uploads
  /\ logs # {}
  /\ daily # << >>

\* a row with a valid employee id and a valid date
RowValid(r) == validateEmployeeId(r.userId).valid /\ normalizeDate(r.date) # Null

\* the punches of a valid row: the tokens that survived normalization
RowKeys(r) ==
  LET timeEntries == timeEntriesOf(r.punchRecords)
  IN {<< validateEmployeeId(r.userId).value, normalizeDate(r.date), timeEntries[i] >> :
        i \in 1..Len(timeEntries)}

\* the counters of a working state of the insert transaction
CountersOf(st) ==
  [inserted |-> st.inserted, skipped |-> st.skipped, empty |-> st.emptyRecordsCount]

RECURSIVE RowKinds(_, _, _)
\* for each row of a batch that starts on the working state st, the counter
\* the row moved: each row moves exactly one counter by one
RowKinds(st, rows, upload_id) ==
  IF rows = << >> THEN << >>
  ELSE LET next == processRow(st, Head(rows), upload_id)
           a == CountersOf(st)
           b == CountersOf(next)
           kind == IF b = [a EXCEPT !.inserted = @ + 1] THEN "inserted"
                   ELSE IF b = [a EXCEPT !.skipped = @ + 1] THEN "skipped"
                   ELSE IF b = [a EXCEPT !.empty = @ + 1] THEN "empty"
                   ELSE "none"
       IN << kind >> \o RowKinds(next, Tail(rows), upload_id)

RECURSIVE RowFacts(_, _)
\* for each row of a batch: whether its id and date are valid, its punches,
\* and whether one of them is not among keys, the punches stored when the
\* row is reached (those stored before the batch and those of the valid rows
\* before it)
RowFacts(keys, rows) ==
  IF rows = << >> THEN << >>
  ELSE LET valid == RowValid(Head(rows))
           own == IF valid THEN RowKeys(Head(rows)) ELSE {}
       IN << [valid |-> valid, keys |-> own, new |-> own \ keys # {}] >>
            \o RowFacts(keys \cup own, Tail(rows))

\* C11: in every batch, a row with a valid employee id and a valid date
\* counts as inserted iff one of its punches was not stored yet, as skipped
\* iff it has punches and all of them were stored already, and as empty iff
\* none of its tokens is a time; the counters the batch reports and stores
\* are the sums over its rows.
C11_RowCounting ==
  [][ /\ (pc = "idle" /\ pc' = "aggregating") =>
           \A rows \in {FileRows(cur'.file)} :
           \A kind \in {RowKinds(TxStart(employees, logs), rows, cur'.uploadId)} :
           \A row \in {RowFacts({Key(l) : l \in logs}, rows)} :
              /\ \A i \in 1..Len(rows) :
                   row[i].valid =>
                     /\ kind[i] = "inserted" <=> row[i].new
                     /\ kind[i] = "skipped" <=> (row[i].keys # {} /\ ~ row[i].new)
                     /\ kind[i] = "empty" <=> row[i].keys = {}
              /\ cur'.inserted = Cardinality({i \in 1..Len(rows) : kind[i] = "inserted"})
              /\ cur'.skipped = Cardinality({i \in 1..Len(rows) : kind[i] = "skipped"})
              /\ cur'.emptyRecordsCount = Cardinality({i \in 1..Len(rows) : kind[i] = "empty"})
      /\ (pc = "aggregating" /\ pc' = "idle" /\ lastResult'.ok) =>
           /\ uploads'[cur.uploadId].records_inserted = cur.inserted
           /\ uploads'[cur.uploadId].records_skipped = cur.skipped
           /\ uploads'[cur.uploadId].records_empty = cur.emptyRecordsCount
           /\ lastResult'.inserted = cur.inserted
           /\ lastResult'.skipped = cur.skipped ]_vars

\* C11 witness: a completed batch of six rows with two inserted rows, a valid
\* row whose punch was stored already, two rows without a usable id or date
\* and one row without a time
C11_Witness ==
  /\ lastOp.kind = "ingest"
  /\ lastOp.file = "b.csv"
  /\ lastOp.upload \in DOMAIN uploads
  /\ uploads[lastOp.upload].records_inserted = 2
  /\ uploads[lastOp.upload].records_skipped = 3
  /\ uploads[lastOp.upload].records_empty = 1

\* C12: in every batch, rows with an unusable employee id, date or punch
\* tokens do not end the batch: every row is processed, and the punches of
\* every row with a valid id and date are stored when the insert transaction
\* has committed.
C12_BadRowsDoNotAbort ==
  pc = "aggregating" =>
    LET rows == FileRows(cur.file)
    IN /\ cur.inserted + cur.skipped + cur.emptyRecordsCount = Len(rows)
       /\ \A i \in 1..Len(rows) :
            RowValid(rows[i]) =>
              /\ RowKeys(rows[i]) \subseteq {Key(l) : l \in logs}
              /\ validateEmployeeId(rows[i].userId).value \in employees

\* C12 witness: the insert transaction of a batch has committed; the batch
\* has a row with a bad id, one with a bad date and one with junk tokens, and
\* a later row of it wrote a new punch
C12_Witness ==
  /\ pc = "aggregating"
  /\ LET rows == FileRows(cur.file)
     IN \E i, j, k, n \in 1..Len(rows) :
          /\ i < n /\ j < n /\ k < n
          /\ ~ validateEmployeeId(rows[i].userId).valid
          /\ validateEmployeeId(rows[j].userId).valid /\ normalizeDate(rows[j].date) = Null
          /\ RowValid(rows[k]) /\ rows[k].punchRecords # Null /\ RowKeys(rows[k]) = {}
          /\ RowValid(rows[n])
          /\ \E x \in insertedBy : x.upload_id = cur.uploadId /\ Key(x) \in RowKeys(rows[n])

\* a file ingestSingleFile cannot read: no such path, over the size ceiling,
\* or content csv-parse throws on
Unreadable(file) == ~ file.exists \/ file.size > 10 * 1024 * 1024 \/ ~ file.parses

\* C13 (as claimed): ingestSingleFile called on a file that cannot be read or
\* exceeds the size ceiling throws to its caller and never returns a result.
C13_UnreadableFileIsError ==
  (uploadResult.op = "ingestSingleFile" /\ Unreadable(uploadFile)) => ~ uploadResult.ok

PhaseRank(phase) ==
  CASE phase = "reading" -> 1 [] phase = "parsing" -> 2 [] phase = "inserting" -> 3
    [] phase = "complete" -> 4 [] phase = "error" -> 4

Terminal == {"complete", "error"}

C15_PercentNeverDecreases ==
  \A i, j \in 1..Len(progressEvents) :
    i < j => progressEvents[i].progress <= progressEvents[j].progress

\* the status names of the specification for the labels of the views
StatusName(status) ==
  CASE status \in {"Full Day", "P"} -> "FullDay"
    [] status \in {"Half Day", "HD"} -> "HalfDay"
    [] status \in {"Absent", "A"} -> "Absent"
    [] status \in {"Weekly Off", "WO"} -> "WeeklyOff"
    [] status \in {"WO Worked", "WW"} -> "WorkedOff"
    [] status = "Pending" -> "Pending"

\* the calendar date is a Sunday
IsSundayDate(dateStr) ==
  (daysFromCivil(yearOf(dateStr), monthOf(dateStr), dayOf(dateStr)) + 4) % 7 = 0

\* the earliest and the latest stored punch of an employee-day
FirstTime(k) == CHOOSE t \in StoredTimes(k) : \A o \in StoredTimes(k) : Seconds(t) <= Seconds(o)

LastTime(k) == CHOOSE t \in StoredTimes(k) : \A o \in StoredTimes(k) : Seconds(o) <= Seconds(t)

\* the views that classify the days of an employee
MonthViews == {"attendance-month", "attendance-all", "grid"}

\* C16 (as claimed): for a non-Sunday day with two punches t1 < t2, the
\* attendance views and the monthly grid report workedMinutes = minutes(t2) -
\* minutes(t1) with the seconds kept as a fraction, and FullDay iff that is
\* >= 480, HalfDay iff it is in [300, 480), Absent otherwise.
C16_WorkedMinutesAndThresholds ==
  answer.view \in MonthViews =>
    \A k \in DOMAIN answer.body :
      (Cardinality(StoredTimes(k)) = 2 /\ Seconds(FirstTime(k)) < Seconds(LastTime(k))
         /\ ~ IsSundayDate(k[2])) =>
        LET worked == Seconds(LastTime(k)) - Seconds(FirstTime(k))
            name == StatusName(answer.body[k].status)
        IN /\ answer.body[k].workedMinutes = worked
           /\ name = "FullDay" <=> worked >= Min(480)
           /\ name = "HalfDay" <=> (worked >= Min(300) /\ worked < Min(480))
           /\ name = "Absent" <=> worked < Min(300)

\* C17 (as claimed): on a Sunday the attendance views and the monthly grid
\* report WeeklyOff for a day without punches and, for a day with punches
\* t1 < t2, WorkedOff iff workedMinutes >= 300 and WeeklyOff otherwise.
C17_SundayStatus ==
  answer.view \in MonthViews =>
    \A k \in DOMAIN answer.body :
      IsSundayDate(k[2]) =>
        LET name == StatusName(answer.body[k].status)
        IN IF StoredTimes(k) = {} THEN name = "WeeklyOff"
           ELSE Seconds(FirstTime(k)) < Seconds(LastTime(k)) =>
                  /\ name = "WorkedOff" <=> answer.body[k].workedMinutes >= Min(300)
                  /\ name \in {"WorkedOff", "WeeklyOff"}

\* C18 (as claimed): for a day without punches the attendance views and the
\* monthly grid report WeeklyOff on a Sunday, otherwise Pending iff the date
\* is after today and Absent for today and earlier dates, with firstIn and
\* lastOut null and workedMinutes 0.
C18_EmptyDayStatus ==
  answer.view \in MonthViews =>
    \A k \in DOMAIN answer.body :
      StoredTimes(k) = {} =>
        /\ answer.body[k].firstIn = Null
        /\ answer.body[k].lastOut = Null
        /\ answer.body[k].workedMinutes = 0
        /\ StatusName(answer.body[k].status) =
             IF IsSundayDate(k[2]) THEN "WeeklyOff"
             ELSE IF daysFromCivil(yearOf(k[2]), monthOf(k[2]), dayOf(k[2]))
                       > daysFromCivil(yearOf(today), monthOf(today), dayOf(today))
                  THEN "Pending"
                  ELSE "Absent"

\* the status a view gives a day whose punches are the list given
StatusOf(view, punches, date) ==
  CASE view = "attendance-month" -> attendanceOfDate(punches, date, today, tzWest).status
    [] view = "attendance-all" -> attendanceOfRow(punches, date, tzWest).status
    [] view = "grid" -> getDayDetails(JoinWith(punches, << ",", " " >>), date, tzWest).status
    [] view = "daily" -> dailyReportRow(JoinWith(punches, << ",", " " >>), date, tzWest).status

\* C19 (as claimed): the status every view, the daily report included,
\* reports for a day with punches is the status it gives the day's first
\* and last punch alone: intermediate punches do not change it.
C19_StatusFromFirstAndLast ==
  answer.view \in MonthViews \cup {"daily"} =>
    \A k \in DOMAIN answer.body :
      Cardinality(StoredTimes(k)) >= 2 =>
        LET punches == readPunches(daily, k)
        IN answer.body[k].status =
             StatusOf(answer.view, << punches[1], punches[Len(punches)] >>, k[2])

\* C20 (as claimed): in the monthly summary totalPresent = fullDay + 0.5 x
\* halfDay, and fullDay, halfDay and workedOff count the days classified
\* FullDay, HalfDay and WorkedOff: a Sunday classified WorkedOff is in
\* workedOff only and adds nothing to fullDay, halfDay or totalPresent.
C20_TotalPresent ==
  answer.view = "monthly-report" =>
    \A e \in DOMAIN answer.body :
      LET stats == answer.body[e]
          date(d) == dateOfMonth(answer.param, d)
          statusOf(d) == getDayDetails(punchesString(daily, << e, date(d) >>), date(d), tzWest).status
          counted(name) == Cardinality({d \in 1..limitDay(answer.param, today) :
                                          StatusName(statusOf(d)) = name})
      IN /\ stats.totalPresent = 2 * stats.present + stats.halfDay
         /\ stats.present = counted("FullDay")
         /\ stats.halfDay = counted("HalfDay")
         /\ stats.woWorked = counted("WorkedOff")

\* C21 (as claimed): the monthly summary replays the day classifier: each of
\* its five buckets counts the iterated days the monthly grid report of the
\* same month gives the matching status, and the buckets sum to the number
\* of days iterated.
C21_SummaryReplaysClassifier ==
  answer.view = "monthly-report" =>
    \A e \in DOMAIN answer.body :
      LET stats == answer.body[e]
          days == 1..limitDay(answer.param, today)
          date(d) == dateOfMonth(answer.param, d)
          tally(status) ==
            Cardinality({d \in days :
               getDayDetails(punchesString(daily, << e, date(d) >>), date(d), tzWest).status
                 = status})
      IN /\ stats.present = tally("P")
         /\ stats.halfDay = tally("HD")
         /\ stats.absent = tally("A")
         /\ stats.weeklyOff = tally("WO")
         /\ stats.woWorked = tally("WW")
         /\ stats.present + stats.halfDay + stats.absent + stats.weeklyOff + stats.woWorked
              = Cardinality(days)

\* the days of a month a report is to classify when today is now_: all of a
\* past month (up to the day before the first of the next month), those up
\* to today of the current month, none of a future month
ExpectedDays(month, now_) ==
  LET y == yearOf(month)
      m == monthOf(month)
      first == daysFromCivil(y, m, 1)
      next == IF m = 12 THEN daysFromCivil(y + 1, 1, 1) ELSE daysFromCivil(y, m + 1, 1)
      thisMonth == 12 * y + m
      currentMonth == 12 * yearOf(now_) + monthOf(now_)
  IN IF thisMonth < currentMonth THEN 1..(next - first)
     ELSE IF thisMonth = currentMonth THEN 1..dayOf(now_)
     ELSE {}

\* C22: the monthly grid report has a status for exactly the expected days of
\* every employee, the monthly summary counts exactly that many days per
\* employee (each day is in exactly one of present, halfDay, absent and
\* weeklyOff), and both list every employee; for a future month the grid has
\* no day and every count of the summary is zero, whatever punches are
\* stored for that month.
C22_DaysClassified ==
  /\ answer.view = "grid" =>
        /\ answer.listed = employees
        /\ DOMAIN answer.body =
             {<< e, dateOfMonth(answer.param, d) >> :
                e \in employees, d \in ExpectedDays(answer.param, today)}
  /\ answer.view = "monthly-report" =>
        /\ answer.listed = employees
        /\ DOMAIN answer.body = employees
        /\ \A e \in employees :
             LET stats == answer.body[e]
             IN /\ stats.present + stats.halfDay + stats.absent + stats.weeklyOff
                     = Cardinality(ExpectedDays(answer.param, today))
                /\ ExpectedDays(answer.param, today) = {} =>
                     stats = [present |-> 0, halfDay |-> 0, absent |-> 0, weeklyOff |-> 0,
                              woWorked |-> 0, totalPresent |-> 0]

\* C22 witness: the summary of February asked on 8 January, with punches of
\* 15 February stored for the one employee
C22_Witness ==
  /\ answer.view = "monthly-report"
  /\ answer.param = Month202402
  /\ today = DateIso8
  /\ << E1, DateFeb15 >> \in DOMAIN daily
  /\ E1 \in answer.listed
  /\ answer.body[E1].absent = 0

\* C23 (as claimed): an upload of an accepted, readable file without data
\* rows, the file of no bytes included, ends without an error and with zero
\* counts, and no employee and no punch is created.
C23_EmptyFileUploadSucceeds ==
  (/\ uploadPc = "done"
   /\ uploadResult.op = "upload-file"
   /\ uploadFile.rows = 0
   /\ uploadFile.parses
   /\ uploadFile.size <= 10 * 1024 * 1024
   /\ validateFileExtension(uploadFile.ext).valid
   /\ uploadResult.error # "storage failure") =>
    /\ uploadResult.ok
    /\ uploadResult.total = 0
    /\ employees = {}
    /\ logs = {}

\* the tokens of a date: the text between its "-" and "/" characters
DateParts(dateStr) == SplitOn(ReplaceChar(dateStr, "/", "-"), {"-"}, FALSE, << >>)

\* a token is not a number: it is empty or holds another character than a digit
NonNumeric(token) == token = << >> \/ ~ AllDigits(token)

\* a canonical date: YYYY-MM-DD
CanonicalDate(d) ==
  /\ Len(d) = 10
  /\ d[5] = "-" /\ d[8] = "-"
  /\ \A i \in {1, 2, 3, 4, 6, 7, 9, 10} : d[i] \in Digits

\* C24 (as claimed): normalizeDate returns null when the input does not
\* split into three tokens and when a numeric component is not a number, for
\* year-first input (year, month, day) as for day-first input (day, a month
\* that is no month name, year); every other result is a canonical
\* YYYY-MM-DD date.
C24_NormalizeDateNullOrCanonical ==
  parsed.fn = "normalizeDate" =>
    LET parts == DateParts(parsed.arg)
        yearFirst == Len(parts[1]) = 4
        numeric == IF yearFirst THEN {parts[1], parts[2], parts[3]}
                   ELSE {parts[1], parts[3]}
                          \cup (IF ToLower(parts[2]) \in MonthNames THEN {} ELSE {parts[2]})
    IN /\ Len(parts) # 3 => parsed.result = Null
       /\ (Len(parts) = 3 /\ \E token \in numeric : NonNumeric(token)) => parsed.result = Null
       /\ parsed.result # Null => CanonicalDate(parsed.result)

\* a canonical time: HH:MM:SS
CanonicalTime(t) ==
  /\ Len(t) = 8
  /\ t[3] = ":" /\ t[6] = ":"
  /\ \A i \in {1, 2, 4, 5, 7, 8} : t[i] \in Digits
  /\ NumVal(SubSeq(t, 1, 2)) <= 23
  /\ NumVal(SubSeq(t, 4, 5)) <= 59
  /\ NumVal(SubSeq(t, 7, 8)) <= 59

\* C25 (as claimed): every punch time in the punch store is in the canonical
\* HH:MM:SS form, whatever accepted form the token of the file had.
C25_StoredTimesCanonical ==
  \A l \in logs : CanonicalTime(l.time)

\* the text of a cell before its first and after its last separator character
FirstToken(cell) ==
  LET seps == {i \in 1..Len(cell) : cell[i] \in Separators}
  IN SubSeq(cell, 1, (CHOOSE i \in seps : \A j \in seps : i <= j) - 1)

LastToken(cell) ==
  LET seps == {i \in 1..Len(cell) : cell[i] \in Separators}
  IN SubSeq(cell, (CHOOSE i \in seps : \A j \in seps : j <= i) + 1, Len(cell))

\* C26: a cell of two times with a run of commas, semicolons, newlines,
\* pipes or whitespace between them (one separator, several spaces, a
\* delimiter followed by spaces) splits into exactly the two time tokens, with
\* no empty token, and both are kept as time entries.
C26_TokenizerSplitsOnRuns ==
  parsed.fn = "tokenize" =>
    /\ parsed.result.splits = << FirstToken(parsed.arg), LastToken(parsed.arg) >>
    /\ \A i \in 1..Len(parsed.result.splits) : parsed.result.splits[i] # << >>
    /\ parsed.result.timeEntries =
         << normalizeTime(FirstToken(parsed.arg)), normalizeTime(LastToken(parsed.arg)) >>
    /\ \A i \in 1..Len(parsed.result.timeEntries) : parsed.result.timeEntries[i] # Null

\* C26 witness: "09:00,  18:00", a comma followed by two spaces, has been split
C26_Witness ==
  /\ parsed.fn = "tokenize"
  /\ parsed.arg = << "0","9",":","0","0",","," "," ","1","8",":","0","0" >>
  /\ parsed.result.splits = << << "0","9",":","0","0" >>, << "1","8",":","0","0" >> >>

\* C27: while an ingestion stands between its two transactions (raw punches
\* committed, cache not yet rebuilt), no other invocation takes a step, no
\* report is answered, and the store changes only by that ingestion's cache
\* rebuild; so every other mutation and every report read finds the store
\* before or after the ingestion's store steps, never between them.
C27_IngestionStepsNotInterleaved ==
  [][\A t \in 1..Len(tasks) :
       tasks[t].pc = "aggregate" =>
         /\ \A o \in (1..Len(tasks)) \ {t} : tasks'[o] = tasks[o]
         /\ answer' = answer
         /\ store' # store => tasks'[t].pc = "result"]_vars

\* C27 witness: an ingestion stands between its transactions while another
\* upload-file is suspended at an await and a deletion or a report is queued
C27_Witness ==
  \E t, o, d \in 1..Len(tasks) :
    /\ tasks[t].pc = "aggregate"
    /\ tasks[o].kind = "upload-file" /\ tasks[o].pc \in {"xlsx", "import"}
    /\ tasks[d].kind # "upload-file" /\ tasks[d].pc = "queued"

\* the punches (employee, date, time) the rows of a file hold
PunchesOfFile(f) == processRows(TxStart({}, {}), FileRows(f), 0).filePunches

\* C28: a stored punch keeps the upload id it was first inserted with for as
\* long as it exists; an upload becomes a contributor of a day only through a
\* punch it inserted itself, never through one that was already stored; and
\* a punch does not outlive the upload that owns it, whatever other uploads'
\* files held it.
C28_FirstUploadWins ==
  [][/\ \A l \in logs : \A n \in logs' : Key(n) = Key(l) => n.upload_id = l.upload_id
     /\ \A l \in logs : l.upload_id \notin DOMAIN uploads' => Key(l) \notin {Key(n) : n \in logs'}
     /\ (pc = "aggregating" /\ pc' = "idle" /\ lastOp'.kind = "ingest") =>
          \A k \in cur.affectedDays \cap DOMAIN daily' :
            cur.uploadId \in Range(daily'[k].upload_ids) =>
              \E key \in cur.filePunches :
                /\ << key[1], key[2] >> = k
                /\ key \notin {Key(l) : l \in cur.storeBefore[2]}]_vars

\* C28 witness: an upload has been deleted and a punch it owned is gone,
\* although the file of an upload that is still there held that punch too
C28_Witness ==
  /\ lastOp.kind = "delete"
  /\ \E u \in DOMAIN uploads :
       \E key \in PunchesOfFile(uploads[u].filename) :
         /\ key \in lastOp.storedBefore
         /\ key \notin {Key(l) : l \in logs}

\* the three counters of an uploads row, added up
RecordsCounted(u) ==
  uploads[u].records_inserted + uploads[u].records_skipped + uploads[u].records_empty

\* C29: the uploads row of every completed ingestion holds counters that add
\* up to the number of rows of its file, and the ingestion that has just
\* completed returned the inserted and skipped counts its row holds.
C29_CountersAddUpToRows ==
  /\ ~ aborted =>
       \A u \in DOMAIN uploads :
         (pc = "aggregating" /\ u = cur.uploadId)
           \/ RecordsCounted(u) = Len(FileRows(uploads[u].filename))
  /\ (lastResult.op = "ingest" /\ lastResult.ok /\ lastResult.uploadId # 0) =>
       /\ lastResult.uploadId \in DOMAIN uploads
       /\ uploads[lastResult.uploadId].records_inserted = lastResult.inserted
       /\ uploads[lastResult.uploadId].records_skipped = lastResult.skipped
       /\ lastResult.total = RecordsCounted(lastResult.uploadId)

\* C29 witness: an ingestion has completed whose rows fell into all three
\* counters
C29_Witness ==
  /\ lastResult.op = "ingest" /\ lastResult.ok
  /\ lastResult.uploadId \in DOMAIN uploads
  /\ uploads[lastResult.uploadId].records_inserted > 0
  /\ uploads[lastResult.uploadId].records_skipped > 0
  /\ uploads[lastResult.uploadId].records_empty > 0
  /\ RecordsCounted(lastResult.uploadId) = Len(FileRows(uploads[lastResult.uploadId].filename))

\* the views that report a status and workedMinutes per employee-day
DayViews == MonthViews \cup {"daily"}

\* what a view reports for the stored punches of employee-day k
ViewOf(view, k) ==
  CASE view = "attendance-month" -> attendanceOfDate(punchesByDate(daily, k), k[2], today, tzWest)
    [] view = "attendance-all" -> attendanceOfRow(readPunches(daily, k), k[2], tzWest)
    [] view = "grid" -> getDayDetails(punchesString(daily, k), k[2], tzWest)
    [] view = "daily" -> dailyReportRow(punchesString(daily, k), k[2], tzWest)

\* the status the monthly summary counts employee-day k under
SummaryStatus(k) ==
  LET counters == countersOfDay(punchesString(daily, k), k[2], tzWest)
  IN IF "woWorked" \in counters THEN "WorkedOff"
     ELSE IF "present" \in counters THEN "FullDay"
     ELSE IF "halfDay" \in counters THEN "HalfDay"
     ELSE IF "weeklyOff" \in counters THEN "WeeklyOff"
     ELSE "Absent"

\* C30 (as claimed): once a view has answered, every employee-day with stored
\* punches gets the same status and the same workedMinutes from the
\* attendance view (with and without a month), the monthly grid and the daily
\* report, and the monthly summary counts the day under that status.
C30_ViewsAgree ==
  answer.view # "none" =>
    \A k \in DOMAIN daily :
      \A v \in DayViews :
        /\ \A w \in DayViews :
             /\ StatusName(ViewOf(v, k).status) = StatusName(ViewOf(w, k).status)
             /\ ViewOf(v, k).workedMinutes = ViewOf(w, k).workedMinutes
        /\ StatusName(ViewOf(v, k).status) = SummaryStatus(k)

====
